---- MODULE Spec2Model ----
(***************************************************************************)
(* Brand-voice analysis pipeline of ContentPlatform.                       *)
(*                                                                         *)
(* Two implementations of the same five-stage pipeline live side by side:  *)
(*   "analyzer" : app/agents/brand_voice_analyzer (module-level functions) *)
(*   "analysis" : app/agents/brand_voice_analysis (node classes)           *)
(*                                                                         *)
(* Text is modelled as Python str: a sequence of one-character strings.    *)
(* Real numbers (scores, severities) are exact decimals held as integers   *)
(* in units of 1/Unit; IEEE rounding is not modelled.                      *)
(***************************************************************************)
EXTENDS Integers, Sequences, FiniteSets, TLC

\* fn, arg, ret: one call of a parser or heuristic (its name, argument, outcome)
\* impl, pc, graph_state, llm_log, result: one run of an analysis graph: which agent, the
\* node to run next, the state dict, the model calls made so far, and what the
\* entry point returned
\* agent: the compiled graph (brand_voice_analyzer, a module global of the analyzer;
\* the local agent of invoke_analysis_agent), or "None"
\* get_llm_raises: whether get_llm() raises in this deployment
\* node_log: the nodes the graph has invoked so far, in order
VARIABLES fn, arg, ret, impl, pc, graph_state, llm_log, result, agent, get_llm_raises, node_log

\* the brand-voice routes (app/api/routes/brand_voice_updated.py):
\* ENV: the environment variable ENV
\* brand_voices, brand_voice_versions: the rows of the two tables, in insertion order
\* now: the clock read by datetime.now()
\* response: the last request and the response it got
\* changes: per brand voice, the significant updates and the restores that succeeded
VARIABLES ENV, brand_voices, brand_voice_versions, now, response, changes

\* invocations of invoke_analyzer in progress at the same time:
\* runs: per invocation, its position in the graph, its state dict, the model
\* calls it made and its return value
VARIABLES runs

\* requests to the brand-voice routes in progress at the same time:
\* sessions: per request, the database session (db) that get_db gave it: the
\* rows it has read and the rows it will write when it commits
VARIABLES sessions

vars == <<fn, arg, ret, impl, pc, graph_state, llm_log, result, agent, get_llm_raises, node_log,
          ENV, brand_voices, brand_voice_versions, now, response, changes, runs, sessions>>

api_vars == <<ENV, brand_voices, brand_voice_versions, now, response, changes>>

call_vars == <<fn, arg, ret>>

run_vars == <<impl, pc, graph_state, llm_log, result, agent, get_llm_raises, node_log>>

(***************************************************************************)
(* Bounds of the model                                                     *)
(***************************************************************************)
\* lines in a model response (and evidence strings in an evidence list)
MaxLines == 3

(***************************************************************************)
(* Numbers                                                                 *)
(***************************************************************************)
\* 1.0; a multiple of 1000 (three decimals) and of 12 (means of <= 4 values)
Unit == 12 * 1000

SetMin(S) == CHOOSE x \in S : \A y \in S : x <= y

SetMax(S) == CHOOSE x \in S : \A y \in S : y <= x

\* Python max(a, b) and min(a, b)
py_max(a, b) == IF a >= b THEN a ELSE b

py_min(a, b) == IF a <= b THEN a ELSE b

(***************************************************************************)
(* Python str operations                                                   *)
(***************************************************************************)
UpperChars == <<"A","B","C","D","E","F","G","H","I","J","K","L","M","N","O","P","Q","R","S","T","U","V","W","X","Y","Z">>

LowerChars == <<"a","b","c","d","e","f","g","h","i","j","k","l","m","n","o","p","q","r","s","t","u","v","w","x","y","z">>

DigitChars == <<"0","1","2","3","4","5","6","7","8","9">>

ToLower == [c \in {UpperChars[i] : i \in 1..26} |-> LowerChars[CHOOSE i \in 1..26 : UpperChars[i] = c]]

DigitVal == [c \in {DigitChars[i] : i \in 1..10} |-> (CHOOSE i \in 1..10 : DigitChars[i] = c) - 1]

\* c.isdigit(), ASCII
isdigit(c) == c \in DOMAIN DigitVal

IsSpace(c) == c \in {" ", "\t", "\n", "\r"}

\* s.lower()
lower(s) == [i \in 1..Len(s) |-> IF s[i] \in DOMAIN ToLower THEN ToLower[s[i]] ELSE s[i]]

\* s.strip()
strip(s) ==
    LET keep == {i \in 1..Len(s) : ~IsSpace(s[i])}
    IN  IF keep = {} THEN << >> ELSE SubSeq(s, SetMin(keep), SetMax(keep))

\* s.startswith(p)
startswith(s, p) == Len(p) <= Len(s) /\ SubSeq(s, 1, Len(p)) = p

\* s.find(sub): 0-based index of the first occurrence, -1 when there is none
find(s, sub) ==
    LET hits == {i \in 0..(Len(s) - Len(sub)) : SubSeq(s, i + 1, i + Len(sub)) = sub}
    IN  IF hits = {} THEN -1 ELSE SetMin(hits)

\* sub in s
contains(s, sub) == \E i \in 0..(Len(s) - Len(sub)) : SubSeq(s, i + 1, i + Len(sub)) = sub

\* s.split(sep, 1): one part when sep does not occur, else two
split1(s, sep) ==
    LET i == find(s, sep)
    IN  IF i < 0 THEN <<s>>
        ELSE <<SubSeq(s, 1, i), SubSeq(s, i + Len(sep) + 1, Len(s))>>

\* s.split(sep)
RECURSIVE split(_, _)
split(s, sep) ==
    LET i == find(s, sep)
    IN  IF i < 0 THEN <<s>>
        ELSE <<SubSeq(s, 1, i)>> \o split(SubSeq(s, i + Len(sep) + 1, Len(s)), sep)

\* s.split(): the maximal runs of non-whitespace
RECURSIVE split_ws(_)
split_ws(s) ==
    LET word == {i \in 1..Len(s) : ~IsSpace(s[i])}
    IN  IF word = {} THEN << >>
        ELSE LET b == SetMin(word)
                 sp == {i \in b..Len(s) : IsSpace(s[i])}
                 e == IF sp = {} THEN Len(s) ELSE SetMin(sp) - 1
             IN  <<SubSeq(s, b, e)>> \o split_ws(SubSeq(s, e + 1, Len(s)))

\* s.replace(old, new), old non-empty
RECURSIVE replace(_, _, _)
replace(s, old, new) ==
    LET i == find(s, old)
    IN  IF i < 0 THEN s
        ELSE SubSeq(s, 1, i) \o new \o replace(SubSeq(s, i + Len(old) + 1, Len(s)), old, new)

\* "\n".join(ls)
RECURSIVE join_lines(_)
join_lines(ls) ==
    IF Len(ls) = 0 THEN << >>
    ELSE IF Len(ls) = 1 THEN ls[1]
    ELSE ls[1] \o <<"\n">> \o join_lines(Tail(ls))

\* int(ds) for a run of decimal digits
RECURSIVE int_of(_)
int_of(ds) == IF Len(ds) = 0 THEN 0 ELSE 10 * int_of(SubSeq(ds, 1, Len(ds) - 1)) + DigitVal[ds[Len(ds)]]

AllDigits(ds) == \A i \in 1..Len(ds) : isdigit(ds[i])

\* the fraction 0.d1d2d3 in units of 1/Unit
RECURSIVE frac_of(_, _)
frac_of(ds, place) ==
    IF Len(ds) = 0 THEN 0
    ELSE (DigitVal[ds[1]] * Unit) \div place + frac_of(Tail(ds), place * 10)

\* float(tok) for the plain decimal forms "12", "12.5", "12.", ".5"; every other
\* token of the model's vocabulary ("7/10") raises ValueError: ok = FALSE
float_of(tok) ==
    LET parts == split1(tok, <<".">>)
        ip == parts[1]
        fp == IF Len(parts) = 2 THEN parts[2] ELSE << >>
    IN  IF AllDigits(ip) /\ AllDigits(fp) /\ Len(ip) + Len(fp) > 0
        THEN [ok |-> TRUE, val |-> int_of(ip) * Unit + frac_of(fp, 10)]
        ELSE [ok |-> FALSE, val |-> 0]

\* re.findall(r"0\.\d+|\d+\.\d+|\d+", s)[:1]: the leftmost match, << >> when none.
\* Every alternative starts with a digit, so the match starts at the first digit;
\* it is the digit run, extended by ".digits" when that follows.
first_number(s) ==
    LET ds == {i \in 1..Len(s) : isdigit(s[i])}
    IN  IF ds = {} THEN << >>
        ELSE LET b == SetMin(ds)
                 run(from) == LET non == {i \in from..Len(s) : ~isdigit(s[i])}
                              IN  IF non = {} THEN Len(s) ELSE SetMin(non) - 1
                 e1 == run(b)
                 e == IF e1 + 2 <= Len(s) /\ s[e1 + 1] = "." /\ isdigit(s[e1 + 2])
                      THEN run(e1 + 2) ELSE e1
             IN  <<SubSeq(s, b, e)>>

(***************************************************************************)
(* String literals of the source                                           *)
(***************************************************************************)
k_overall == <<"o","v","e","r","a","l","l">>

k_personality == <<"p","e","r","s","o","n","a","l","i","t","y">>

k_tonality == <<"t","o","n","a","l","i","t","y">>

k_tone == <<"t","o","n","e">>

k_dos == <<"d","o","s">>

k_donts == <<"d","o","n","t","s">>

k_don_ts == <<"d","o","n","'","t","s">>

k_do == <<"d","o">>

k_s == <<"s">>

k_don == <<"d","o","n">>

\* the five canonical score keys
required_scores == <<k_overall, k_personality, k_tonality, k_dos, k_donts>>

ScoreKeys == {required_scores[i] : i \in 1..Len(required_scores)}

(***************************************************************************)
(* Score calculator: brand_voice_analyzer.parse_scores                     *)
(***************************************************************************)
\* normalize_score with the 0-100 scale forgotten: a faulty variant, used to show
\* that the scale property below depends on that branch
normalize_score_no_percent(value) ==
    LET scaled == IF value > Unit /\ value <= 10 * Unit THEN value \div 10 ELSE value
    IN  py_max(0, py_min(Unit, scaled))

\* scale detection and clamp of one parsed value
normalize_score(value) ==
    LET scaled == IF value > Unit /\ value <= 10 * Unit THEN value \div 10
                  ELSE IF value > 10 * Unit /\ value <= 100 * Unit THEN value \div 100
                  ELSE value
    IN  py_max(0, py_min(Unit, scaled))

\* the if/elif cascade that maps the left-of-colon key to a score key; << >> is no match
score_key_of(key) ==
    IF contains(key, k_overall) THEN <<k_overall>>
    ELSE IF contains(key, k_personality) THEN <<k_personality>>
    ELSE IF contains(key, k_tone) \/ contains(key, k_tonality) THEN <<k_tonality>>
    ELSE IF contains(key, k_do) /\ contains(key, k_s) THEN <<k_dos>>
    ELSE IF contains(key, k_don) THEN <<k_donts>>
    ELSE << >>

\* the body of the loop for one line: the update <<key, value>> it makes, or << >>
parse_scores_line(raw) ==
    LET line == strip(raw)
    IN  IF line = << >> \/ ~contains(line, <<":">>) THEN << >>
        ELSE LET parts == split1(line, <<":">>)
                 key == lower(strip(parts[1]))
                 numbers == first_number(strip(parts[2]))
             IN  IF numbers = << >> THEN << >>
                 ELSE LET k == score_key_of(key)
                      IN  IF k = << >> THEN << >>
                          ELSE <<k[1], normalize_score(float_of(numbers[1]).val)>>

default_scores == [k \in ScoreKeys |-> Unit \div 2]

RECURSIVE parse_scores_loop(_, _)
parse_scores_loop(lines, scores) ==
    IF Len(lines) = 0 THEN scores
    ELSE LET u == parse_scores_line(lines[1])
         IN  parse_scores_loop(Tail(lines),
                 IF u = << >> THEN scores ELSE [scores EXCEPT ![u[1]] = u[2]])

parse_scores(response_text) == parse_scores_loop(split(response_text, <<"\n">>), default_scores)

(***************************************************************************)
(* Score calculator: brand_voice_analysis ScoreCalculatorNode._parse_scores*)
(***************************************************************************)
score_types == <<k_overall, k_personality, k_tonality, k_dos, k_don_ts, k_donts>>

\* ScoreCalculatorNode_normalize with the final clamp forgotten: a faulty variant,
\* used to show that the range property below depends on the clamp
ScoreCalculatorNode_normalize_no_clamp(numeric_score) ==
    IF numeric_score > Unit /\ numeric_score <= 10 * Unit THEN numeric_score \div 10
    ELSE IF numeric_score > 10 * Unit /\ numeric_score <= 100 * Unit THEN numeric_score \div 100
    ELSE numeric_score

\* scale detection and clamp of one parsed value
ScoreCalculatorNode_normalize(numeric_score) ==
    LET scaled == IF numeric_score > Unit /\ numeric_score <= 10 * Unit THEN numeric_score \div 10
                  ELSE IF numeric_score > 10 * Unit /\ numeric_score <= 100 * Unit
                       THEN numeric_score \div 100
                  ELSE numeric_score
    IN  py_min(Unit, py_max(0, scaled))

\* for one lowered line and one score type: the update <<key, value>>, or << >>
\* (no indicator in the line, no part starting with a digit, or float() raised)
ScoreCalculatorNode_score_of(line, score_type) ==
    LET with_score == score_type \o <<" ","s","c","o","r","e">>
        with_colon == score_type \o <<":">>
    IN  IF ~(contains(line, with_score) \/ contains(line, with_colon)) THEN << >>
        ELSE LET parts == split_ws(strip(replace(replace(line, with_score, << >>), with_colon, << >>)))
                 digit == {i \in 1..Len(parts) : isdigit(parts[i][1])}
             IN  IF digit = {} THEN << >>
                 ELSE LET f == float_of(parts[SetMin(digit)])
                      IN  IF ~f.ok THEN << >>
                          ELSE <<replace(score_type, <<"'">>, << >>), ScoreCalculatorNode_normalize(f.val)>>

RECURSIVE ScoreCalculatorNode_types_loop(_, _, _)
ScoreCalculatorNode_types_loop(line, i, scores) ==
    IF i > Len(score_types) THEN scores
    ELSE LET u == ScoreCalculatorNode_score_of(line, score_types[i])
         IN  ScoreCalculatorNode_types_loop(line, i + 1,
                 IF u = << >> THEN scores ELSE (u[1] :> u[2]) @@ scores)

\* the scan of the lines: the scores recovered from the response
RECURSIVE ScoreCalculatorNode_scan(_, _)
ScoreCalculatorNode_scan(lines, scores) ==
    IF Len(lines) = 0 THEN scores
    ELSE LET line == lower(strip(lines[1]))
         IN  ScoreCalculatorNode_scan(Tail(lines),
                 IF line = << >> THEN scores ELSE ScoreCalculatorNode_types_loop(line, 1, scores))

RECURSIVE SumOf(_, _)
SumOf(f, S) == IF S = {} THEN 0 ELSE LET x == CHOOSE x \in S : TRUE IN f[x] + SumOf(f, S \ {x})

\* sum(scores.values()) / len(scores)
mean_of(scores) == SumOf(scores, DOMAIN scores) \div Cardinality(DOMAIN scores)

\* ScoreCalculatorNode_estimate that ignores the recovered scores: a faulty variant
ScoreCalculatorNode_estimate_half(scores) == Unit \div 2

\* the value given to a score that is missing
ScoreCalculatorNode_estimate(scores) == IF DOMAIN scores # {} THEN mean_of(scores) ELSE Unit \div 2

\* "Ensure we have all required scores": each missing key in turn
RECURSIVE ScoreCalculatorNode_fill(_, _)
ScoreCalculatorNode_fill(i, scores) ==
    IF i > Len(required_scores) THEN scores
    ELSE ScoreCalculatorNode_fill(i + 1,
             IF required_scores[i] \in DOMAIN scores THEN scores
             ELSE (required_scores[i] :> ScoreCalculatorNode_estimate(scores)) @@ scores)

ScoreCalculatorNode_parse_scores(response_text) ==
    ScoreCalculatorNode_fill(1, ScoreCalculatorNode_scan(split(response_text, <<"\n">>), << >>))

(***************************************************************************)
(* Issue extractor: brand_voice_analyzer.parse_issues                      *)
(***************************************************************************)
m_issue == <<"i","s","s","u","e",":">>

m_problem == <<"p","r","o","b","l","e","m",":">>

m_mismatch == <<"m","i","s","m","a","t","c","h",":">>

m_violation == <<"v","i","o","l","a","t","i","o","n",":">>

w_explanation == <<"e","x","p","l","a","n","a","t","i","o","n",":">>

w_text == <<"t","e","x","t",":">>

w_do_sp == <<"d","o"," ">>

w_don_t == <<"d","o","n","'","t">>

w_dont == <<"d","o","n","t">>

w_style == <<"s","t","y","l","e">>

w_format == <<"f","o","r","m","a","t">>

w_not == <<"n","o","t">>

\* line.lower().startswith(("issue:", "problem:", "mismatch:", "violation:"))
is_issue_marker(line) ==
    \E m \in {m_issue, m_problem, m_mismatch, m_violation} : startswith(lower(line), m)

determine_issue_type(line) ==
    LET line_lower == lower(line)
    IN  IF contains(line_lower, k_personality) THEN "personality_mismatch"
        ELSE IF contains(line_lower, k_tone) \/ contains(line_lower, k_tonality) THEN "tonality_mismatch"
        ELSE IF contains(line_lower, w_do_sp) \/ contains(line_lower, k_dos) THEN "dos_violation"
        ELSE IF contains(line_lower, w_don_t) \/ contains(line_lower, w_dont) \/ contains(line_lower, k_donts)
             THEN "donts_violation"
        ELSE IF contains(line_lower, w_style) \/ contains(line_lower, w_format) THEN "style_inconsistency"
        ELSE "general"

\* the dict of a new issue; id stands for the fresh uuid4: the ordinal of the issue
\* among those the call creates
new_issue(id, line) ==
    [id |-> id, start_index |-> 0, end_index |-> 0,
     text |-> strip(split1(line, <<":">>)[2]),
     issue_type |-> determine_issue_type(line),
     explanation |-> << >>, severity |-> Unit \div 2]

\* "Save previous issue if exists": current_issue is None (<< >>) or a dict
flush_issue(issues, current_issue) ==
    IF current_issue # << >> THEN issues \o current_issue ELSE issues

\* one pass of the loop body; st = [issues, cur, made]: the list, current_issue
\* (<< >> is None) and the number of issues created so far
parse_issues_step(st, raw) ==
    LET line == strip(raw)
    IN  IF line = << >> THEN st
        ELSE IF is_issue_marker(line)
        THEN [issues |-> flush_issue(st.issues, st.cur),
              cur |-> <<new_issue(st.made + 1, line)>>,
              made |-> st.made + 1]
        ELSE IF st.cur # << >> /\ contains(lower(line), w_explanation)
        THEN [st EXCEPT !.cur[1].explanation = strip(split1(line, <<":">>)[2])]
        ELSE IF st.cur # << >>
        THEN [st EXCEPT !.cur[1].explanation =
                            IF @ # << >> THEN @ \o <<" ">> \o line ELSE line]
        ELSE st

RECURSIVE parse_issues_loop(_, _)
parse_issues_loop(lines, st) ==
    IF Len(lines) = 0 THEN st ELSE parse_issues_loop(Tail(lines), parse_issues_step(st, lines[1]))

parse_issues(response_text) ==
    LET st == parse_issues_loop(split(response_text, <<"\n">>),
                                [issues |-> << >>, cur |-> << >>, made |-> 0])
    IN  flush_issue(st.issues, st.cur)

(***************************************************************************)
(* Issue extractor: brand_voice_analysis ContentAnalyzerNode._parse_issues *)
(***************************************************************************)
ContentAnalyzerNode_determine_issue_type(line) ==
    LET line_lower == lower(line)
    IN  IF contains(line_lower, k_personality) THEN "personality_mismatch"
        ELSE IF contains(line_lower, k_tone) \/ contains(line_lower, k_tonality) THEN "tonality_mismatch"
        ELSE IF contains(line_lower, k_do) /\ contains(line_lower, w_not) THEN "donts_violation"
        ELSE IF contains(line_lower, k_do) THEN "dos_violation"
        ELSE IF contains(line_lower, w_style) THEN "style_inconsistency"
        ELSE "general"

\* ContentIssue(...) as built at a marker line
ContentIssue(line) ==
    [start_index |-> 0, end_index |-> 0, text |-> << >>,
     issue_type |-> ContentAnalyzerNode_determine_issue_type(line),
     explanation |-> << >>, severity |-> Unit \div 2]

\* the flush at a marker line: "if current_issue:", the truth value of a pydantic
\* model object, which is true for every object
ContentAnalyzerNode_flush_at_marker(issues, current_issue) ==
    IF current_issue # << >> THEN issues \o current_issue ELSE issues

\* the flush after the loop: "if current_issue and current_issue.text:"
ContentAnalyzerNode_flush_at_end(issues, current_issue) ==
    IF current_issue # << >> /\ current_issue[1].text # << >> THEN issues \o current_issue ELSE issues

\* line.split(word, 1)[1].strip() on the line as written (not lowered):
\* IndexError (ok = FALSE) when word does not occur in that letter case
ContentAnalyzerNode_after(line, word) ==
    LET parts == split1(line, word)
    IN  IF Len(parts) < 2 THEN [ok |-> FALSE, val |-> << >>]
        ELSE [ok |-> TRUE, val |-> strip(parts[2])]

\* one pass of the loop body; st = [issues, cur, err]
ContentAnalyzerNode_parse_issues_step(st, raw) ==
    LET line == strip(raw)
        st1 == IF is_issue_marker(line)
               THEN [st EXCEPT !.issues = ContentAnalyzerNode_flush_at_marker(st.issues, st.cur),
                               !.cur = <<ContentIssue(line)>>]
               ELSE st
    IN  IF st.err \/ line = << >> THEN st
        ELSE IF st1.cur = << >> THEN st1
        ELSE IF contains(lower(line), w_text)
        THEN LET t == ContentAnalyzerNode_after(line, w_text)
             IN  IF t.ok THEN [st1 EXCEPT !.cur[1].text = t.val] ELSE [st1 EXCEPT !.err = TRUE]
        ELSE IF contains(lower(line), w_explanation)
        THEN LET e == ContentAnalyzerNode_after(line, w_explanation)
             IN  IF e.ok THEN [st1 EXCEPT !.cur[1].explanation = e.val] ELSE [st1 EXCEPT !.err = TRUE]
        ELSE IF st1.cur[1].explanation = << >> /\ st1.cur[1].text # << >>
        THEN [st1 EXCEPT !.cur[1].explanation = line]
        ELSE st1

RECURSIVE ContentAnalyzerNode_parse_issues_loop(_, _)
ContentAnalyzerNode_parse_issues_loop(lines, st) ==
    IF Len(lines) = 0 THEN st
    ELSE ContentAnalyzerNode_parse_issues_loop(Tail(lines),
             ContentAnalyzerNode_parse_issues_step(st, lines[1]))

\* [err, val]: err when the call raised, else val is the list returned
ContentAnalyzerNode_parse_issues(response_text) ==
    LET st == ContentAnalyzerNode_parse_issues_loop(split(response_text, <<"\n">>),
                  [issues |-> << >>, cur |-> << >>, err |-> FALSE])
    IN  IF st.err THEN [err |-> TRUE, val |-> << >>]
        ELSE [err |-> FALSE, val |-> ContentAnalyzerNode_flush_at_end(st.issues, st.cur)]

(***************************************************************************)
(* Suggestion generator: brand_voice_analyzer.parse_suggestions            *)
(***************************************************************************)
m_suggestion_colon == <<"s","u","g","g","e","s","t","i","o","n",":">>

m_suggestion == <<"s","u","g","g","e","s","t","i","o","n">>

m_improvement == <<"i","m","p","r","o","v","e","m","e","n","t">>

m_recommendation == <<"r","e","c","o","m","m","e","n","d","a","t","i","o","n">>

w_original == <<"o","r","i","g","i","n","a","l",":">>

w_original_text == <<"o","r","i","g","i","n","a","l"," ","t","e","x","t",":">>

w_suggested == <<"s","u","g","g","e","s","t","e","d",":">>

w_suggested_text == <<"s","u","g","g","e","s","t","e","d"," ","t","e","x","t",":">>

w_replacement == <<"r","e","p","l","a","c","e","m","e","n","t",":">>

w_new == <<"n","e","w",":">>

w_reason == <<"r","e","a","s","o","n",":">>

w_category == <<"c","a","t","e","g","o","r","y",":">>

w_priority == <<"p","r","i","o","r","i","t","y",":">>

w_high == <<"h","i","g","h">>

w_medium == <<"m","e","d","i","u","m">>

w_low == <<"l","o","w">>

w_n_t == <<"n","'","t">>

\* line.startswith(("1.", ..., "10.")) or line.lower().startswith("suggestion:")
is_suggestion_marker(line) ==
    \/ \E d \in 2..10 : startswith(line, <<DigitChars[d], ".">>)
    \/ startswith(line, <<"1", "0", ".">>)
    \/ startswith(lower(line), m_suggestion_colon)

\* the text after the first colon, stripped; "" when the line has no colon
after_colon(line) ==
    IF contains(line, <<":">>) THEN strip(split1(line, <<":">>)[2]) ELSE << >>

\* the category cascade; old is kept when no keyword matches
category_of(category_text, old) ==
    IF contains(category_text, k_personality) THEN "personality"
    ELSE IF contains(category_text, k_tone) \/ contains(category_text, k_tonality) THEN "tonality"
    ELSE IF contains(category_text, k_do) /\ contains(category_text, k_s) /\ ~contains(category_text, w_n_t)
         THEN "dos"
    ELSE IF contains(category_text, w_don_t) \/ contains(category_text, w_dont) THEN "donts"
    ELSE IF contains(category_text, w_style) THEN "style"
    ELSE old

\* the priority cascade; old is kept when no keyword matches
priority_of(priority_text, old) ==
    IF contains(priority_text, w_high) \/ contains(priority_text, <<"1">>) THEN 1
    ELSE IF contains(priority_text, w_medium) \/ contains(priority_text, <<"2">>) THEN 2
    ELSE IF contains(priority_text, w_low) \/ contains(priority_text, <<"3">>) THEN 3
    ELSE old

\* the dict of a new suggestion; id stands for the fresh uuid4; issue_id is the
\* optional key: << >> while the dict has no "issue_id"
new_suggestion(id, line) ==
    [id |-> id, original_text |-> << >>, suggested_text |-> << >>,
     explanation |-> after_colon(line), category |-> "general", priority |-> 2,
     issue_id |-> << >>]

\* link_suggestion that takes the last matching issue: a faulty variant
link_suggestion_last(suggestion, issues) ==
    LET hit == {i \in 1..Len(issues) :
                    suggestion.original_text # << >>
                    /\ contains(issues[i].text, suggestion.original_text)}
    IN  IF hit = {} THEN suggestion
        ELSE [suggestion EXCEPT !.issue_id = <<issues[SetMax(hit)].id>>]

\* "Save previous suggestion if exists": the test is on the presence of the keys
\* "original_text" and "suggested_text", which every suggestion dict has
flush_suggestion(suggestions, current_suggestion) ==
    IF current_suggestion # << >> THEN suggestions \o current_suggestion ELSE suggestions

\* one pass of the loop body; st = [suggestions, cur, made]
parse_suggestions_step(st, raw) ==
    LET line == strip(raw)
        low == lower(line)
        open == st.cur # << >>
    IN  IF line = << >> THEN st
        ELSE IF is_suggestion_marker(line)
        THEN [suggestions |-> flush_suggestion(st.suggestions, st.cur),
              cur |-> <<new_suggestion(st.made + 1, line)>>,
              made |-> st.made + 1]
        ELSE IF open /\ startswith(low, w_original)
        THEN [st EXCEPT !.cur[1].original_text = after_colon(line)]
        ELSE IF open /\ \E w \in {w_suggested, w_replacement, w_new} : startswith(low, w)
        THEN [st EXCEPT !.cur[1].suggested_text = after_colon(line)]
        ELSE IF open /\ startswith(low, w_explanation)
        THEN [st EXCEPT !.cur[1].explanation = after_colon(line)]
        ELSE IF open /\ startswith(low, w_category)
        THEN [st EXCEPT !.cur[1].category = category_of(lower(after_colon(line)), @)]
        ELSE IF open /\ startswith(low, w_priority)
        THEN [st EXCEPT !.cur[1].priority = priority_of(lower(after_colon(line)), @)]
        ELSE IF open /\ st.cur[1].explanation = << >>
        THEN [st EXCEPT !.cur[1].explanation = line]
        ELSE st

RECURSIVE parse_suggestions_loop(_, _)
parse_suggestions_loop(lines, st) ==
    IF Len(lines) = 0 THEN st
    ELSE parse_suggestions_loop(Tail(lines), parse_suggestions_step(st, lines[1]))

\* "Link suggestions to issues if possible": the first issue whose text contains
\* the non-empty original_text
link_suggestion(suggestion, issues) ==
    LET hit == {i \in 1..Len(issues) :
                    suggestion.original_text # << >>
                    /\ contains(issues[i].text, suggestion.original_text)}
    IN  IF hit = {} THEN suggestion
        ELSE [suggestion EXCEPT !.issue_id = <<issues[SetMin(hit)].id>>]

parse_suggestions(response_text, issues) ==
    LET st == parse_suggestions_loop(split(response_text, <<"\n">>),
                                     [suggestions |-> << >>, cur |-> << >>, made |-> 0])
        all == flush_suggestion(st.suggestions, st.cur)
    IN  [i \in 1..Len(all) |-> link_suggestion(all[i], issues)]

(***************************************************************************)
(* Suggestion generator: brand_voice_analysis                              *)
(* SuggestionGeneratorNode._parse_suggestions                              *)
(***************************************************************************)
\* the values of SuggestionCategory, in the order of the enum
SuggestionCategory == <<"personality", "tonality", "dos", "donts", "style", "general">>

CategoryChars ==
    [c \in {SuggestionCategory[i] : i \in 1..6} |->
        CASE c = "personality" -> k_personality
          [] c = "tonality" -> k_tonality
          [] c = "dos" -> k_dos
          [] c = "donts" -> k_donts
          [] c = "style" -> w_style
          [] c = "general" -> <<"g","e","n","e","r","a","l">>]

SuggestionGeneratorNode_is_marker(line) ==
    \E m \in {m_suggestion, m_improvement, m_recommendation} : startswith(lower(line), m)

\* "for cat in SuggestionCategory: if cat.value in category_text"
SuggestionGeneratorNode_category_of(category_text, old) ==
    LET hit == {i \in 1..6 : contains(category_text, CategoryChars[SuggestionCategory[i]])}
    IN  IF hit = {} THEN old ELSE SuggestionCategory[SetMin(hit)]

ContentSuggestion(id) ==
    [id |-> id, original_text |-> << >>, suggested_text |-> << >>, explanation |-> << >>,
     category |-> "general", priority |-> 2]

\* both flushes: "current_suggestion and current_suggestion.original_text and
\* current_suggestion.suggested_text"
SuggestionGeneratorNode_flush(suggestions, current_suggestion) ==
    IF /\ current_suggestion # << >>
       /\ current_suggestion[1].original_text # << >>
       /\ current_suggestion[1].suggested_text # << >>
    THEN suggestions \o current_suggestion
    ELSE suggestions

\* one pass of the loop body; st = [suggestions, cur, made]
SuggestionGeneratorNode_step(st, raw) ==
    LET line == strip(raw)
        low == lower(line)
        st1 == IF SuggestionGeneratorNode_is_marker(line)
               THEN [suggestions |-> SuggestionGeneratorNode_flush(st.suggestions, st.cur),
                     cur |-> <<ContentSuggestion(st.made + 1)>>,
                     made |-> st.made + 1]
               ELSE st
        rest == strip(split1(line, <<":">>)[2])
    IN  IF line = << >> THEN st
        ELSE IF st1.cur = << >> THEN st1
        ELSE IF contains(low, w_original) \/ contains(low, w_original_text)
        THEN [st1 EXCEPT !.cur[1].original_text = rest]
        ELSE IF contains(low, w_suggested) \/ contains(low, w_suggested_text) \/ contains(low, w_replacement)
        THEN [st1 EXCEPT !.cur[1].suggested_text = rest]
        ELSE IF contains(low, w_explanation) \/ contains(low, w_reason)
        THEN [st1 EXCEPT !.cur[1].explanation = rest]
        ELSE IF contains(low, w_category)
        THEN [st1 EXCEPT !.cur[1].category = SuggestionGeneratorNode_category_of(lower(rest), @)]
        ELSE IF contains(low, w_priority)
        THEN [st1 EXCEPT !.cur[1].priority = priority_of(lower(rest), @)]
        ELSE IF /\ st1.cur[1].explanation = << >>
                /\ st1.cur[1].original_text # << >>
                /\ st1.cur[1].suggested_text # << >>
        THEN [st1 EXCEPT !.cur[1].explanation = line]
        ELSE st1

RECURSIVE SuggestionGeneratorNode_loop(_, _)
SuggestionGeneratorNode_loop(lines, st) ==
    IF Len(lines) = 0 THEN st
    ELSE SuggestionGeneratorNode_loop(Tail(lines), SuggestionGeneratorNode_step(st, lines[1]))

SuggestionGeneratorNode_parse_suggestions(response_text, issues) ==
    LET st == SuggestionGeneratorNode_loop(split(response_text, <<"\n">>),
                                           [suggestions |-> << >>, cur |-> << >>, made |-> 0])
    IN  SuggestionGeneratorNode_flush(st.suggestions, st.cur)

(***************************************************************************)
(* Severity heuristic: brand_voice_analyzer.calculate_severity             *)
(***************************************************************************)
w_completely == <<"c","o","m","p","l","e","t","e","l","y">>

w_severely == <<"s","e","v","e","r","e","l","y">>

w_extremely == <<"e","x","t","r","e","m","e","l","y">>

w_totally == <<"t","o","t","a","l","l","y">>

w_very == <<"v","e","r","y">>

w_significant == <<"s","i","g","n","i","f","i","c","a","n","t">>

w_major == <<"m","a","j","o","r">>

w_somewhat == <<"s","o","m","e","w","h","a","t">>

w_partially == <<"p","a","r","t","i","a","l","l","y">>

w_slightly == <<"s","l","i","g","h","t","l","y">>

w_minor == <<"m","i","n","o","r">>

w_a_bit == <<"a"," ","b","i","t">>

strong_words == <<w_completely, w_severely, w_extremely, w_totally, w_very, w_significant, w_major>>

medium_words == <<w_somewhat, w_partially, w_slightly, w_minor, w_a_bit>>

\* count_words that counts a line once however many of the words it contains: a
\* variant that differs from the code on a line with two words of one vocabulary
count_lines(evidence, words) ==
    Cardinality({i \in 1..Len(evidence) :
                     \E j \in 1..Len(words) : contains(lower(evidence[i]), words[j])})

\* clamp_severity that clamps nothing: a faulty variant
clamp_severity_off(severity) == severity

\* the two nested loops: one count for every (evidence item, word) pair with the
\* word in the lowered item
count_words(evidence, words) ==
    Cardinality({p \in (1..Len(evidence)) \X (1..Len(words)) :
                     contains(lower(evidence[p[1]]), words[p[2]])})

\* "Clamp to valid range": max(0.1, min(0.9, severity))
clamp_severity(severity) == py_max(Unit \div 10, py_min((9 * Unit) \div 10, severity))

calculate_severity(evidence) ==
    IF Len(evidence) = 0 THEN Unit \div 2
    ELSE clamp_severity(Unit \div 2
                        + (Unit \div 10) * count_words(evidence, strong_words)
                        - (Unit \div 20) * count_words(evidence, medium_words))

(***************************************************************************)
(* Severity heuristic: brand_voice_analysis                                *)
(* EvidenceCollectorNode._calculate_severity                               *)
(***************************************************************************)
w_severity == <<"s","e","v","e","r","i","t","y",":">>

w_critical == <<"c","r","i","t","i","c","a","l">>

w_moderate == <<"m","o","d","e","r","a","t","e">>

w_slight == <<"s","l","i","g","h","t">>

w_minimal == <<"m","i","n","i","m","a","l">>

\* severity_indicators, in the order of the dict
severity_indicators ==
    <<[word |-> w_critical, value |-> Unit],
      [word |-> w_major, value |-> (8 * Unit) \div 10],
      [word |-> w_significant, value |-> (7 * Unit) \div 10],
      [word |-> w_moderate, value |-> (5 * Unit) \div 10],
      [word |-> w_minor, value |-> (3 * Unit) \div 10],
      [word |-> w_slight, value |-> (2 * Unit) \div 10],
      [word |-> w_minimal, value |-> Unit \div 10]>>

\* the try block of one "severity:" line: <<value>> when it returns a numeric
\* severity, << >> when the text does not start with a digit or an exception is passed
EvidenceCollectorNode_numeric_severity(line_lower) ==
    LET severity_text == strip(split1(line_lower, w_severity)[2])
    IN  IF severity_text = << >> THEN << >>
        ELSE IF ~isdigit(severity_text[1]) THEN << >>
        ELSE LET f == float_of(split_ws(severity_text)[1])
             IN  IF ~f.ok THEN << >>
                 ELSE <<py_min(Unit, py_max(0, IF f.val > Unit THEN f.val \div 10 ELSE f.val))>>

\* the verdict of one evidence line: <<value>> when the line makes the function
\* return, << >> when the loop goes on
EvidenceCollectorNode_line_severity(line) ==
    LET line_lower == lower(line)
    IN  IF ~contains(line_lower, w_severity) THEN << >>
        ELSE LET n == EvidenceCollectorNode_numeric_severity(line_lower)
                 hit == {i \in 1..Len(severity_indicators) :
                             contains(line_lower, severity_indicators[i].word)}
             IN  IF n # << >> THEN n
                 ELSE IF hit # {} THEN <<severity_indicators[SetMin(hit)].value>>
                 ELSE << >>

EvidenceCollectorNode_calculate_severity(evidence) ==
    LET hit == {i \in 1..Len(evidence) : EvidenceCollectorNode_line_severity(evidence[i]) # << >>}
    IN  IF hit = {} THEN Unit \div 2
        ELSE EvidenceCollectorNode_line_severity(evidence[SetMin(hit)])[1]

(***************************************************************************)
(* The state dict threaded through the nodes                               *)
(***************************************************************************)
\* state.get(k, default) and state[k] = v on a dict: a function whose domain is
\* the set of keys present
Get(d, k, default) == IF k \in DOMAIN d THEN d[k] ELSE default

Put(d, k, v) == (k :> v) @@ d

\* stage_error that also resets analysis_stage: a faulty variant
stage_error_resetting_stage(state, stage, exc) ==
    Put(Put(Put(state, "error", <<[stage |-> stage, exc |-> exc]>>),
            "messages", Get(state, "messages", << >>) \o << <<"error", stage>> >>),
        "analysis_stage", "initialized")

\* the except branch of every node: state["error"] = "Error in <stage>: <e>" and
\* one more message; nothing else is written
stage_error(state, stage, exc) ==
    Put(Put(state, "error", <<[stage |-> stage, exc |-> exc]>>),
        "messages", Get(state, "messages", << >>) \o << <<"error", stage>> >>)

add_message(state, message) ==
    Put(state, "messages", Get(state, "messages", << >>) \o <<message>>)

\* str(k) for k >= 0
RECURSIVE str_of_int(_)
str_of_int(k) ==
    IF k < 10 THEN <<DigitChars[k + 1]>> ELSE str_of_int(k \div 10) \o <<DigitChars[(k % 10) + 1]>>

(***************************************************************************)
(* brand_voice_analyzer: the nodes                                         *)
(***************************************************************************)
\* out is the outcome of llm.invoke: [ok, content]; ok = FALSE is the call raising

analyze_content(state, out) ==
    IF ~out.ok THEN stage_error(state, "content analyzer", "llm")
    ELSE LET issues == parse_issues(out.content)
         IN  add_message(Put(Put(state, "issues", issues), "analysis_stage", "content_analyzed"),
                         <<"content_analyzed", Len(issues)>>)

w_evidence == <<"e","v","i","d","e","n","c","e",":">>

\* line.startswith(("1.", ..., "n.")): the number k of the marker, 0 when no marker
evidence_marker(line, n) ==
    LET hit == {k \in 1..n : startswith(line, str_of_int(k) \o <<".">>)}
    IN  IF hit = {} THEN 0 ELSE int_of(split1(line, <<".">>)[1])

\* one pass of the loop body; st = [evidence, idx]: the dict and current_issue_idx
extract_evidence_step(st, raw, issues) ==
    LET line == strip(raw)
        n == Len(issues)
        current == 0 <= st.idx /\ st.idx < n
        id == issues[st.idx + 1].id
        add(evidence_text) ==
            IF evidence_text # << >>
            THEN [st EXCEPT !.evidence[id] = Append(@, evidence_text)]
            ELSE st
    IN  IF line = << >> THEN st
        ELSE IF evidence_marker(line, n) > 0 THEN [st EXCEPT !.idx = evidence_marker(line, n) - 1]
        ELSE IF startswith(lower(line), w_evidence) /\ current THEN add(after_colon(line))
        ELSE IF startswith(line, <<"-">>) /\ current THEN add(strip(Tail(line)))
        ELSE st

RECURSIVE extract_evidence_loop(_, _, _)
extract_evidence_loop(lines, st, issues) ==
    IF Len(lines) = 0 THEN st
    ELSE extract_evidence_loop(Tail(lines), extract_evidence_step(st, lines[1], issues), issues)

\* the evidence dict: issue id -> list of evidence texts
extract_evidence(response_text, issues, content) ==
    extract_evidence_loop(split(response_text, <<"\n">>),
        [evidence |-> [id \in {issues[i].id : i \in 1..Len(issues)} |-> << >>], idx |-> -1],
        issues).evidence

find_text_position(content, text) ==
    LET start == find(content, text)
    IN  IF start >= 0 THEN <<start, start + Len(text)>> ELSE <<0, 0>>

\* "Update issues with positions and severity", for one issue
refine_issue(issue, evidence, content) ==
    LET ev == evidence[issue.id]
        pos == find_text_position(content, ev[1])
        placed == IF ev # << >> /\ ev[1] # << >>
                  THEN [issue EXCEPT !.start_index = pos[1], !.end_index = pos[2]]
                  ELSE issue
    IN  [placed EXCEPT !.severity = calculate_severity(ev)]

\* "Skip if no issues found"
evidence_skipped(state) == Get(state, "issues", << >>) = << >>

collect_evidence_skip(state) == Put(Put(state, "evidence", << >>), "analysis_stage", "evidence_collected")

collect_evidence(state, out) ==
    IF ~out.ok THEN stage_error(state, "evidence collector", "llm")
    ELSE LET issues == Get(state, "issues", << >>)
             evidence == extract_evidence(out.content, issues, state.content)
             refined == [i \in 1..Len(issues) |-> refine_issue(issues[i], evidence, state.content)]
         IN  add_message(Put(Put(Put(state, "evidence", evidence),
                                 "analysis_stage", "evidence_collected"),
                             "issues", refined),
                         <<"evidence_collected", Cardinality(DOMAIN evidence)>>)

calculate_scores(state, out) ==
    IF ~out.ok THEN stage_error(state, "score calculator", "llm")
    ELSE LET scores == parse_scores(out.content)
         IN  add_message(Put(Put(state, "scores", scores), "analysis_stage", "scores_calculated"),
                         <<"scores_calculated", Get(scores, k_overall, Unit \div 2)>>)

\* sorted(issues, key=severity, reverse=True): stable, equal severities keep their order
RECURSIVE sorted_by_severity(_)
sorted_by_severity(issues) ==
    IF Len(issues) = 0 THEN << >>
    ELSE LET top == SetMax({issues[i].severity : i \in 1..Len(issues)})
             k == SetMin({i \in 1..Len(issues) : issues[i].severity = top})
         IN  <<issues[k]>> \o sorted_by_severity(SubSeq(issues, 1, k - 1) \o SubSeq(issues, k + 1, Len(issues)))

\* xs[:n] for n >= 0
take(xs, n) == SubSeq(xs, 1, py_min(n, Len(xs)))

\* suggestions_skipped without the test on the issues: a faulty variant
suggestions_skipped_by_option_only(state) ==
    ~(IF "options" \in DOMAIN state /\ "include_suggestions" \in DOMAIN state.options
      THEN state.options.include_suggestions ELSE TRUE)

\* "Skip if no issues or suggestions not requested"
suggestions_skipped(state) ==
    Get(state, "issues", << >>) = << >> \/ ~Get(Get(state, "options", << >>), "include_suggestions", TRUE)

generate_suggestions_skip(state) ==
    Put(Put(state, "suggestions", << >>), "analysis_stage", "suggestions_generated")

\* generate_suggestions that sorts state["issues"] in place: a faulty variant
generate_suggestions_sorting_in_place(state, out) ==
    IF ~out.ok THEN stage_error(state, "suggestion generator", "llm")
    ELSE LET max_suggestions == Get(Get(state, "options", << >>), "max_suggestions", 5)
             sorted_issues == sorted_by_severity(Get(state, "issues", << >>))
             suggestions == parse_suggestions(out.content, take(sorted_issues, max_suggestions))
         IN  add_message(Put(Put(Put(state, "issues", sorted_issues), "suggestions", suggestions),
                             "analysis_stage", "suggestions_generated"),
                         <<"suggestions_generated", Len(suggestions)>>)

generate_suggestions(state, out) ==
    IF ~out.ok THEN stage_error(state, "suggestion generator", "llm")
    ELSE LET max_suggestions == Get(Get(state, "options", << >>), "max_suggestions", 5)
             issues_to_process == take(sorted_by_severity(Get(state, "issues", << >>)), max_suggestions)
             suggestions == parse_suggestions(out.content, issues_to_process)
         IN  add_message(Put(Put(state, "suggestions", suggestions),
                             "analysis_stage", "suggestions_generated"),
                         <<"suggestions_generated", Len(suggestions)>>)

\* the analysis_result dict built by the report node, before the optional report
analysis_result_of(state) ==
    LET scores == Get(state, "scores", << >>)
        issues == Get(state, "issues", << >>)
        suggestions == Get(state, "suggestions", << >>)
    IN  [overall_score |-> Get(scores, k_overall, Unit \div 2),
         personality_score |-> Get(scores, k_personality, Unit \div 2),
         tonality_score |-> Get(scores, k_tonality, Unit \div 2),
         dos_alignment |-> Get(scores, k_dos, Unit \div 2),
         donts_alignment |-> Get(scores, k_donts, Unit \div 2),
         highlighted_sections |-> issues,
         suggestions |-> suggestions,
         analysis_metadata |-> [brand_voice_id |-> Get(state.brand_voice, "id", << >>),
                                brand_voice_name |-> Get(state.brand_voice, "name", << >>),
                                content_length |-> Len(state.content),
                                issue_count |-> Len(issues),
                                suggestion_count |-> Len(suggestions),
                                timestamp |-> "uuid1"]]

\* report_requested that ignores the option: a faulty variant
report_requested_always(state) == TRUE

\* options.get("generate_report", True)
report_requested(state) == Get(Get(state, "options", << >>), "generate_report", TRUE)

finish_report(state, analysis_result) ==
    add_message(Put(Put(state, "analysis_result", analysis_result), "analysis_stage", "completed"),
                <<"completed", Get(Get(state, "scores", << >>), k_overall, Unit \div 2)>>)

\* generate_report when no report is requested: no model call
generate_report_plain(state) == finish_report(state, analysis_result_of(state))

\* generate_report with generate_text_report's model call
generate_report(state, out) ==
    IF ~out.ok THEN stage_error(state, "analysis report generator", "llm")
    ELSE finish_report(state, Put(analysis_result_of(state), "report", out.content))

\* invoke_analyzer's result without the check for errors: a faulty variant
invoke_analyzer_result_unchecked(final) ==
    [success |-> TRUE, analysis_result |-> Get(final, "analysis_result", << >>),
     messages |-> Get(final, "messages", << >>)]

\* what invoke_analyzer returns for the final state of the graph
invoke_analyzer_result(final) ==
    IF Get(final, "error", << >>) # << >>
    THEN [success |-> FALSE, error |-> final.error, analysis_result |-> << >>]
    ELSE [success |-> TRUE, analysis_result |-> Get(final, "analysis_result", << >>),
          messages |-> Get(final, "messages", << >>)]

(***************************************************************************)
(* brand_voice_analysis: the node classes                                  *)
(***************************************************************************)
ContentAnalyzerNode_call(state, out) ==
    IF ~out.ok THEN stage_error(state, "content analyzer", "llm")
    ELSE LET parsed == ContentAnalyzerNode_parse_issues(out.content)
         IN  IF parsed.err THEN stage_error(state, "content analyzer", "IndexError")
             ELSE add_message(Put(Put(state, "issues", parsed.val),
                                  "analysis_stage", "content_analyzed"),
                              <<"content_analyzed", Len(parsed.val)>>)

w_issue_bare == <<"i","s","s","u","e">>

w_evidence_bare == <<"e","v","i","d","e","n","c","e">>

w_evidence_for_issue == <<"e","v","i","d","e","n","c","e"," ","f","o","r"," ","i","s","s","u","e">>

w_issue_sp == <<"i","s","s","u","e"," ">>

w_issue_hash == <<"i","s","s","u","e"," ","#">>

\* the for loop over range(len(issues)): the first i + 1 with "issue {i+1}" or
\* "issue #{i+1}" in the lowered line, 0 when there is none
EvidenceCollectorNode_issue_named(line_lower, n) ==
    LET hit == {k \in 1..n : \/ contains(line_lower, w_issue_sp \o str_of_int(k))
                            \/ contains(line_lower, w_issue_hash \o str_of_int(k))}
    IN  IF hit = {} THEN 0 ELSE SetMin(hit)

\* "if current_issue and current_evidence: evidence[current_issue] = current_evidence"
EvidenceCollectorNode_save(st) ==
    IF st.cur > 0 /\ st.cur_ev # << >> THEN Put(st.evidence, st.cur, st.cur_ev) ELSE st.evidence

\* one pass of the loop body; st = [evidence, cur, cur_ev]: the dict keyed by k for
\* "issue_k", current_issue (0 is None) and current_evidence
EvidenceCollectorNode_extract_step(st, raw, n) ==
    LET line == strip(raw)
        low == lower(line)
        k == EvidenceCollectorNode_issue_named(low, n)
    IN  IF line = << >> THEN st
        ELSE IF startswith(low, w_issue_bare) \/ startswith(low, w_evidence_for_issue)
        THEN IF k > 0 THEN [evidence |-> EvidenceCollectorNode_save(st), cur |-> k, cur_ev |-> << >>]
             ELSE [st EXCEPT !.evidence = EvidenceCollectorNode_save(st)]
        ELSE IF st.cur > 0 /\ ~(startswith(low, w_issue_bare) \/ startswith(low, w_evidence_bare))
        THEN [st EXCEPT !.cur_ev = Append(@, line)]
        ELSE st

RECURSIVE EvidenceCollectorNode_extract_loop(_, _, _)
EvidenceCollectorNode_extract_loop(lines, st, n) ==
    IF Len(lines) = 0 THEN st
    ELSE EvidenceCollectorNode_extract_loop(Tail(lines),
             EvidenceCollectorNode_extract_step(st, lines[1], n), n)

EvidenceCollectorNode_extract_evidence(response_text, issues, content) ==
    EvidenceCollectorNode_save(
        EvidenceCollectorNode_extract_loop(split(response_text, <<"\n">>),
            [evidence |-> << >>, cur |-> 0, cur_ev |-> << >>], Len(issues)))

\* "Update issue with more precise information if available", for issue i
EvidenceCollectorNode_refine(issue, i, evidence, content) ==
    LET issue_evidence == Get(evidence, i, << >>)
        start == find(content, issue.text)
    IN  IF issue_evidence = << >> THEN issue
        ELSE [issue EXCEPT !.start_index = start,
                           !.end_index = IF start >= 0 THEN start + Len(issue.text) ELSE -1,
                           !.severity = EvidenceCollectorNode_calculate_severity(issue_evidence)]

EvidenceCollectorNode_skipped(state) == Get(state, "issues", << >>) = << >>

EvidenceCollectorNode_skip(state) ==
    Put(Put(add_message(state, <<"no_issues", 0>>), "evidence", << >>),
        "analysis_stage", "evidence_collected")

EvidenceCollectorNode_call(state, out) ==
    IF ~out.ok THEN stage_error(state, "evidence collector", "llm")
    ELSE LET issues == state.issues
             evidence == EvidenceCollectorNode_extract_evidence(out.content, issues, state.content)
             updated == [i \in 1..Len(issues) |->
                            EvidenceCollectorNode_refine(issues[i], i, evidence, state.content)]
         IN  add_message(Put(Put(Put(state, "evidence", evidence),
                                 "analysis_stage", "evidence_collected"),
                             "issues", updated),
                         <<"evidence_collected", Len(issues)>>)

ScoreCalculatorNode_call(state, out) ==
    IF ~out.ok THEN stage_error(state, "score calculator", "llm")
    ELSE LET scores == ScoreCalculatorNode_parse_scores(out.content)
         IN  add_message(Put(Put(state, "scores", scores), "analysis_stage", "scores_calculated"),
                         <<"scores_calculated", scores[k_overall]>>)

\* suggestions.sort(key=lambda x: x.priority): stable, priorities are 1, 2, 3
sorted_by_priority(suggestions) ==
    LET pick(p) == SelectSeq(suggestions, LAMBDA s : s.priority = p)
    IN  pick(1) \o pick(2) \o pick(3)

\* "Limit suggestions if needed"
SuggestionGeneratorNode_limit(suggestions, max_suggestions) ==
    IF Len(suggestions) > max_suggestions
    THEN take(sorted_by_priority(suggestions), max_suggestions)
    ELSE suggestions

\* the two early returns: suggestions not requested, or no issues
SuggestionGeneratorNode_skipped(state) ==
    \/ ~Get(Get(state, "options", << >>), "include_suggestions", TRUE)
    \/ Get(state, "issues", << >>) = << >>

SuggestionGeneratorNode_skip(state) ==
    add_message(Put(Put(state, "suggestions", << >>), "analysis_stage", "suggestions_generated"),
                IF ~Get(Get(state, "options", << >>), "include_suggestions", TRUE)
                THEN <<"suggestions_skipped", 0>> ELSE <<"no_issues_no_suggestions", 0>>)

SuggestionGeneratorNode_call(state, out) ==
    IF ~out.ok THEN stage_error(state, "suggestion generator", "llm")
    ELSE LET parsed == SuggestionGeneratorNode_parse_suggestions(out.content, Get(state, "issues", << >>))
             max_suggestions == Get(Get(state, "options", << >>), "max_suggestions", 5)
             suggestions == SuggestionGeneratorNode_limit(parsed, max_suggestions)
         IN  add_message(Put(Put(state, "suggestions", suggestions),
                             "analysis_stage", "suggestions_generated"),
                         <<"suggestions_generated", Len(suggestions)>>)

\* AnalysisReportNode.__call__ when no report is requested: no model call
AnalysisReportNode_plain(state) == finish_report(state, analysis_result_of(state))

\* AnalysisReportNode.__call__ with _generate_report's model call
AnalysisReportNode_call(state, out) ==
    IF ~out.ok THEN stage_error(state, "analysis report generator", "llm")
    ELSE finish_report(state, Put(analysis_result_of(state), "report", out.content))

\* what invoke_analysis_agent returns for the final state of the graph
invoke_analysis_agent_result(final) ==
    IF Get(final, "error", << >>) # << >>
    THEN [success |-> FALSE, error |-> final.error, analysis_result |-> << >>]
    ELSE [success |-> TRUE, analysis_result |-> Get(final, "analysis_result", << >>),
          messages |-> Get(final, "messages", << >>)]

(***************************************************************************)
(* Inputs of the parser harness                                            *)
(***************************************************************************)
Ln_issue_too_casual == <<"I","s","s","u","e",":"," ","t","o","o"," ","c","a","s","u","a","l">>

Ln_Explanation_formal == <<"E","x","p","l","a","n","a","t","i","o","n",":"," ","v","i","o","l","a","t","e","s"," ","f","o","r","m","a","l"," ","t","o","n","a","l","i","t","y">>

Ln_explanation_off_brand == <<"e","x","p","l","a","n","a","t","i","o","n",":"," ","o","f","f"," ","b","r","a","n","d">>

Ln_text_hey_folks == <<"t","e","x","t",":"," ","h","e","y"," ","f","o","l","k","s">>

Ln_problem_empty == <<"P","r","o","b","l","e","m",":">>

Ln_sounds_informal == <<"I","t"," ","s","o","u","n","d","s"," ","i","n","f","o","r","m","a","l">>

Ln_violation_tone == <<"V","i","o","l","a","t","i","o","n",":"," ","t","o","n","e"," ","i","s"," ","w","r","o","n","g">>

Ln_mismatch_do_not == <<"M","i","s","m","a","t","c","h",":"," ","d","o"," ","n","o","t"," ","u","s","e"," ","s","l","a","n","g">>

IssueLines == {Ln_issue_too_casual, Ln_Explanation_formal, Ln_explanation_off_brand,
               Ln_text_hey_folks, Ln_problem_empty, Ln_sounds_informal, Ln_violation_tone,
               Ln_mismatch_do_not}

Ln_overall_score_08 == <<"O","v","e","r","a","l","l"," ","S","c","o","r","e",":"," ","0",".","8">>

Ln_personality_7 == <<"P","e","r","s","o","n","a","l","i","t","y",":"," ","7">>

Ln_tone_70 == <<"T","o","n","e",":"," ","7","0">>

Ln_dos_04 == <<"D","o","s",":"," ","0",".","4">>

Ln_don_ts_107 == <<"D","o","n","'","t","s",":"," ","1","0","7">>

Ln_overall_7_of_10 == <<"O","v","e","r","a","l","l",":"," ","7","/","1","0">>

Ln_looks_fine == <<"L","o","o","k","s"," ","f","i","n","e">>

Ln_tonality_score_025 == <<" "," ","t","o","n","a","l","i","t","y"," ","s","c","o","r","e"," ","0",".","2","5"," ">>

Ln_don_ts_alignment_09 == <<"D","o","n","'","t","s"," ","A","l","i","g","n","m","e","n","t",":"," ","0",".","9">>

Ln_donts_09 == <<"d","o","n","t","s",":"," ","0",".","9">>

ScoreLines == {Ln_overall_score_08, Ln_personality_7, Ln_tone_70, Ln_dos_04, Ln_don_ts_107,
               Ln_overall_7_of_10, Ln_looks_fine, Ln_tonality_score_025}

\* the numeric tokens of the scale-normalisation cases, each put on the line "Overall: <token>"
Pfx_overall == <<"O","v","e","r","a","l","l",":"," ">>

ScaleTokens == {<<"0">>, <<"0",".","7">>, <<"1">>, <<"7">>, <<"1","0">>, <<"7","0">>,
                <<"1","0","0">>, <<"1","0","7">>}

SeqsUpTo(S, n) == UNION {[1..k -> S] : k \in 0..n}

TextsOf(Lines) == {join_lines(ls) : ls \in SeqsUpTo(Lines, MaxLines)}

ScoreTexts ==
    TextsOf(ScoreLines) \cup {Pfx_overall \o t : t \in ScaleTokens}
    \cup {Ln_don_ts_alignment_09, Ln_donts_09}

Ln_suggestion_fix == <<"S","u","g","g","e","s","t","i","o","n",":"," ","f","i","x"," ","t","h","e"," ","g","r","e","e","t","i","n","g">>

Ln_1_soften == <<"1","."," ","S","o","f","t","e","n"," ","t","h","e"," ","t","o","n","e">>

Ln_original_hey == <<"O","r","i","g","i","n","a","l",":"," ","h","e","y"," ","f","o","l","k","s">>

Ln_suggested_dear == <<"S","u","g","g","e","s","t","e","d",":"," ","D","e","a","r"," ","c","u","s","t","o","m","e","r","s">>

Ln_priority_high == <<"P","r","i","o","r","i","t","y",":"," ","h","i","g","h">>

Ln_category_tonality == <<"C","a","t","e","g","o","r","y",":"," ","t","o","n","a","l","i","t","y">>

Ln_explanation_formal == <<"E","x","p","l","a","n","a","t","i","o","n",":"," ","m","o","r","e"," ","f","o","r","m","a","l">>

Ln_original_empty == <<"O","r","i","g","i","n","a","l",":">>

SuggestionLines == {Ln_suggestion_fix, Ln_1_soften, Ln_original_hey, Ln_suggested_dear,
                    Ln_priority_high, Ln_category_tonality, Ln_explanation_formal,
                    Ln_original_empty}

Ev_extremely == <<"T","h","i","s"," ","p","h","r","a","s","e"," ","i","s"," ","e","x","t","r","e","m","e","l","y"," ","i","n","f","o","r","m","a","l">>

Ev_completely_totally == <<"c","o","m","p","l","e","t","e","l","y"," ","a","n","d"," ","t","o","t","a","l","l","y"," ","w","r","o","n","g">>

Ev_bit_somewhat_minor == <<"a"," ","b","i","t"," ","o","f","f",","," ","s","o","m","e","w","h","a","t"," ","m","i","n","o","r">>

Ev_severity_critical == <<"S","e","v","e","r","i","t","y",":"," ","c","r","i","t","i","c","a","l">>

Ev_severity_0 == <<"s","e","v","e","r","i","t","y",":"," ","0">>

Ev_uses_slang == <<"u","s","e","s"," ","s","l","a","n","g">>

Ev_severity_7_of_10 == <<"S","e","v","e","r","i","t","y",":"," ","7","/","1","0"," ","m","a","j","o","r">>

Ev_severity_4 == <<"S","e","v","e","r","i","t","y",":"," ","4">>

EvidenceItems == {Ev_extremely, Ev_completely_totally, Ev_bit_somewhat_minor, Ev_severity_critical,
                  Ev_severity_0, Ev_uses_slang, Ev_severity_7_of_10, Ev_severity_4}

Tx_hey_folks_long == <<"h","e","y"," ","f","o","l","k","s",","," ","w","h","a","t"," ","i","s"," ","u","p">>

Tx_hey_folks == <<"h","e","y"," ","f","o","l","k","s">>

\* the issue list handed to the suggestion parsers in the harness
HarnessIssues ==
    <<[id |-> 1, start_index |-> 0, end_index |-> 0, text |-> Tx_hey_folks_long,
       issue_type |-> "general", explanation |-> << >>, severity |-> Unit \div 2],
      [id |-> 2, start_index |-> 0, end_index |-> 0, text |-> Tx_hey_folks,
       issue_type |-> "tonality_mismatch", explanation |-> << >>, severity |-> Unit \div 2]>>

IssueTexts == TextsOf(IssueLines)

SuggestionTexts == TextsOf(SuggestionLines)

EvidenceLists == SeqsUpTo(EvidenceItems, MaxLines)

(***************************************************************************)
(* Inputs of a run: the request and what the model may answer              *)
(***************************************************************************)
MaxSuggestionsOpt == 2

Ln_issue_tone == <<"I","s","s","u","e",":"," ","t","o","n","e">>

Ln_problem_slang == <<"P","r","o","b","l","e","m",":"," ","s","l","a","n","g">>

Ln_text_what_is_up == <<"t","e","x","t",":"," ","w","h","a","t"," ","i","s"," ","u","p">>

Ln_1_tone == <<"1","."," ","t","o","n","e">>

Ln_2_slang == <<"2","."," ","s","l","a","n","g">>

Ln_evidence_hey == <<"E","v","i","d","e","n","c","e",":"," ","h","e","y"," ","f","o","l","k","s">>

Ln_bullet_completely == <<"-"," ","c","o","m","p","l","e","t","e","l","y"," ","a","n","d"," ","t","o","t","a","l","l","y"," ","w","r","o","n","g">>

Ln_bullet_very_major == <<"-"," ","v","e","r","y"," ","m","a","j","o","r">>

Ln_bullet_bit == <<"-"," ","a"," ","b","i","t"," ","o","f","f",","," ","s","o","m","e","w","h","a","t"," ","m","i","n","o","r">>

Ln_issue_1 == <<"I","s","s","u","e"," ","1",":">>

Ln_issue_2 == <<"I","s","s","u","e"," ","2",":">>

Ln_suggestion_two == <<"S","u","g","g","e","s","t","i","o","n",":"," ","d","r","o","p"," ","t","h","e"," ","s","l","a","n","g">>

Ln_original_what == <<"O","r","i","g","i","n","a","l",":"," ","w","h","a","t"," ","i","s"," ","u","p">>

Ln_suggested_how == <<"S","u","g","g","e","s","t","e","d",":"," ","H","o","w"," ","a","r","e"," ","y","o","u">>

Ln_priority_low == <<"P","r","i","o","r","i","t","y",":"," ","l","o","w">>

Ln_suggestion_three == <<"S","u","g","g","e","s","t","i","o","n",":"," ","a","d","d"," ","a"," ","c","l","o","s","i","n","g">>

Ln_original_up == <<"O","r","i","g","i","n","a","l",":"," ","u","p">>

Ln_suggested_regards == <<"S","u","g","g","e","s","t","e","d",":"," ","K","i","n","d"," ","r","e","g","a","r","d","s">>

Tx_report == <<"R","e","p","o","r","t">>

Tx_brand == <<"A","c","m","e">>

Rsp_one_issue == join_lines(<<Ln_issue_too_casual, Ln_Explanation_formal>>)

Rsp_two_issues == join_lines(<<Ln_issue_tone, Ln_text_hey_folks, Ln_problem_slang, Ln_text_what_is_up>>)

Rsp_issue_then_marker == join_lines(<<Ln_issue_too_casual, Ln_problem_empty>>)

Ln_text_howdy == <<"t","e","x","t",":"," ","h","o","w","d","y">>

\* an issue whose text is not a part of the content
Rsp_absent_text == join_lines(<<Ln_issue_tone, Ln_text_howdy>>)

AnalysisResponses ==
    {Ln_looks_fine, Rsp_one_issue, Rsp_two_issues, Rsp_issue_then_marker, Rsp_absent_text}

Rsp_numbered_evidence ==
    join_lines(<<Ln_1_tone, Ln_evidence_hey, Ln_bullet_completely, Ln_bullet_completely,
                 Ln_bullet_very_major, Ln_2_slang, Ln_bullet_bit>>)

Rsp_named_evidence == join_lines(<<Ln_issue_1, Ev_severity_critical, Ln_issue_2, Ev_severity_0>>)

Rsp_named_plain == join_lines(<<Ln_issue_2, Ev_uses_slang, Ln_issue_1, Ev_severity_4>>)

\* the second issue gets the stronger evidence
Rsp_second_more_severe == join_lines(<<Ln_1_tone, Ln_bullet_bit, Ln_2_slang, Ln_bullet_completely>>)

EvidenceResponses ==
    {Ln_looks_fine, Rsp_numbered_evidence, Rsp_named_evidence, Rsp_named_plain,
     Rsp_second_more_severe}

Rsp_two_scores == join_lines(<<Ln_overall_score_08, Ln_dos_04>>)

ScoreResponses == {Ln_looks_fine, Rsp_two_scores}

Rsp_one_suggestion == join_lines(<<Ln_suggestion_fix, Ln_original_hey, Ln_suggested_dear>>)

Rsp_three_suggestions ==
    join_lines(<<Ln_suggestion_fix, Ln_original_hey, Ln_suggested_dear, Ln_priority_low,
                 Ln_suggestion_two, Ln_original_what, Ln_suggested_how, Ln_priority_high,
                 Ln_suggestion_three, Ln_original_up, Ln_suggested_regards>>)

Ln_original_n == <<"O","r","i","g","i","n","a","l",":"," ","n">>

\* a suggestion whose original text is a part of the text of both issues
Rsp_shared_original == join_lines(<<Ln_suggestion_fix, Ln_original_n, Ln_suggested_dear>>)

SuggestionResponses ==
    {Ln_looks_fine, Rsp_one_suggestion, Rsp_three_suggestions, Ln_1_soften, Rsp_shared_original}

ReportResponses == {Tx_report}

\* llm.invoke(messages): a response, or the call raises
Outcomes(responses) == {[ok |-> TRUE, content |-> r] : r \in responses} \cup {[ok |-> FALSE, content |-> << >>]}

\* the options dict of the request; DefaultOptions is what the entry points use
\* when options is None
DefaultOptions ==
    [analysis_depth |-> "standard", include_suggestions |-> TRUE, highlight_issues |-> TRUE,
     max_suggestions |-> 5, generate_report |-> TRUE]

OptionSets ==
    {DefaultOptions} \cup
    [include_suggestions : BOOLEAN, max_suggestions : 0..MaxSuggestionsOpt, generate_report : BOOLEAN]

BrandVoice == [id |-> "bv1", name |-> Tx_brand]

(***************************************************************************)
(* Parser harness: one call of one parser on one response text             *)
(***************************************************************************)
Pending == [done |-> FALSE, err |-> FALSE, val |-> << >>]

Returned(v) == [done |-> TRUE, err |-> FALSE, val |-> v]

Raised == [done |-> TRUE, err |-> TRUE, val |-> << >>]

\* what a route answered: the request (handler, user, path parameters) and the
\* status code and body of the response
Response(handler, current_user, voice_id, version_number, status_code, body) ==
    [handler |-> handler, user |-> current_user, voice_id |-> voice_id,
     version_number |-> version_number, status_code |-> status_code, body |-> body]

NoResponse == Response("none", [id |-> "", tenant_id |-> "", role |-> ""], "", 0, 0, << >>)

\* no request has been made to the brand-voice routes
NoApi ==
    /\ ENV = "production" /\ brand_voices = << >> /\ brand_voice_versions = << >>
    /\ now = 0 /\ response = NoResponse /\ changes = << >>

\* no invocations run side by side
NoRuns == runs = << >> /\ sessions = << >>

\* no run is in progress
NoRun ==
    /\ impl = "none" /\ pc = "idle" /\ graph_state = << >> /\ llm_log = << >> /\ result = << >>
    /\ agent = "None" /\ get_llm_raises = FALSE /\ node_log = << >>

\* the issue list handed to the evidence parsers in the harness: ten issues, so
\* that a marker can name an issue with a two-digit number
EvidenceHarnessIssues == [i \in 1..10 |-> [HarnessIssues[1] EXCEPT !.id = i]]

Ln_10_tone == <<"1","0","."," ","t","o","n","e">>

Ln_issue_10 == <<"I","s","s","u","e"," ","1","0",":">>

\* responses in the numbered format that extract_evidence reads
NumberedEvidenceTexts == TextsOf({Ln_1_tone, Ln_10_tone, Ln_evidence_hey, Ln_bullet_bit})

\* responses in the named format that EvidenceCollectorNode._extract_evidence reads
NamedEvidenceTexts == TextsOf({Ln_issue_1, Ln_issue_10, Ev_uses_slang, Ev_severity_4})

ParserInit ==
    /\ NoRun
    /\ NoApi
    /\ NoRuns
    /\ ret = Pending
    /\ \/ fn \in {"parse_scores", "ScoreCalculatorNode._parse_scores"} /\ arg \in ScoreTexts
       \/ fn \in {"parse_issues", "ContentAnalyzerNode._parse_issues"} /\ arg \in IssueTexts
       \/ /\ fn \in {"parse_suggestions", "SuggestionGeneratorNode._parse_suggestions"}
          /\ arg \in SuggestionTexts
       \/ /\ fn \in {"calculate_severity", "EvidenceCollectorNode._calculate_severity"}
          /\ arg \in EvidenceLists
       \/ fn = "extract_evidence" /\ arg \in NumberedEvidenceTexts
       \/ fn = "EvidenceCollectorNode._extract_evidence" /\ arg \in NamedEvidenceTexts

Call_parse_scores ==
    /\ fn = "parse_scores" /\ ~ret.done
    /\ ret' = Returned(parse_scores(arg))
    /\ UNCHANGED <<fn, arg>>
    /\ UNCHANGED run_vars
    /\ UNCHANGED api_vars
    /\ UNCHANGED runs
    /\ UNCHANGED sessions

Call_ScoreCalculatorNode_parse_scores ==
    /\ fn = "ScoreCalculatorNode._parse_scores" /\ ~ret.done
    /\ ret' = Returned(ScoreCalculatorNode_parse_scores(arg))
    /\ UNCHANGED <<fn, arg>>
    /\ UNCHANGED run_vars
    /\ UNCHANGED api_vars
    /\ UNCHANGED runs
    /\ UNCHANGED sessions

Call_parse_issues ==
    /\ fn = "parse_issues" /\ ~ret.done
    /\ ret' = Returned(parse_issues(arg))
    /\ UNCHANGED <<fn, arg>>
    /\ UNCHANGED run_vars
    /\ UNCHANGED api_vars
    /\ UNCHANGED runs
    /\ UNCHANGED sessions

Call_ContentAnalyzerNode_parse_issues ==
    /\ fn = "ContentAnalyzerNode._parse_issues" /\ ~ret.done
    /\ ret' = LET r == ContentAnalyzerNode_parse_issues(arg)
              IN  IF r.err THEN Raised ELSE Returned(r.val)
    /\ UNCHANGED <<fn, arg>>
    /\ UNCHANGED run_vars
    /\ UNCHANGED api_vars
    /\ UNCHANGED runs
    /\ UNCHANGED sessions

Call_parse_suggestions ==
    /\ fn = "parse_suggestions" /\ ~ret.done
    /\ ret' = Returned(parse_suggestions(arg, HarnessIssues))
    /\ UNCHANGED <<fn, arg>>
    /\ UNCHANGED run_vars
    /\ UNCHANGED api_vars
    /\ UNCHANGED runs
    /\ UNCHANGED sessions

Call_SuggestionGeneratorNode_parse_suggestions ==
    /\ fn = "SuggestionGeneratorNode._parse_suggestions" /\ ~ret.done
    /\ ret' = Returned(SuggestionGeneratorNode_parse_suggestions(arg, HarnessIssues))
    /\ UNCHANGED <<fn, arg>>
    /\ UNCHANGED run_vars
    /\ UNCHANGED api_vars
    /\ UNCHANGED runs
    /\ UNCHANGED sessions

Call_calculate_severity ==
    /\ fn = "calculate_severity" /\ ~ret.done
    /\ ret' = Returned(calculate_severity(arg))
    /\ UNCHANGED <<fn, arg>>
    /\ UNCHANGED run_vars
    /\ UNCHANGED api_vars
    /\ UNCHANGED runs
    /\ UNCHANGED sessions

Call_EvidenceCollectorNode_calculate_severity ==
    /\ fn = "EvidenceCollectorNode._calculate_severity" /\ ~ret.done
    /\ ret' = Returned(EvidenceCollectorNode_calculate_severity(arg))
    /\ UNCHANGED <<fn, arg>>
    /\ UNCHANGED run_vars
    /\ UNCHANGED api_vars
    /\ UNCHANGED runs
    /\ UNCHANGED sessions

Call_extract_evidence ==
    /\ fn = "extract_evidence" /\ ~ret.done
    /\ ret' = Returned(extract_evidence(arg, EvidenceHarnessIssues, Tx_hey_folks_long))
    /\ UNCHANGED <<fn, arg>>
    /\ UNCHANGED run_vars
    /\ UNCHANGED api_vars
    /\ UNCHANGED runs
    /\ UNCHANGED sessions

Call_EvidenceCollectorNode_extract_evidence ==
    /\ fn = "EvidenceCollectorNode._extract_evidence" /\ ~ret.done
    /\ ret' = Returned(EvidenceCollectorNode_extract_evidence(arg, EvidenceHarnessIssues,
                                                              Tx_hey_folks_long))
    /\ UNCHANGED <<fn, arg>>
    /\ UNCHANGED run_vars
    /\ UNCHANGED api_vars
    /\ UNCHANGED runs
    /\ UNCHANGED sessions

ParserNext ==
    \/ Call_parse_scores
    \/ Call_ScoreCalculatorNode_parse_scores
    \/ Call_parse_issues
    \/ Call_ContentAnalyzerNode_parse_issues
    \/ Call_parse_suggestions
    \/ Call_SuggestionGeneratorNode_parse_suggestions
    \/ Call_calculate_severity
    \/ Call_EvidenceCollectorNode_calculate_severity
    \/ Call_extract_evidence
    \/ Call_EvidenceCollectorNode_extract_evidence

ParserSpec == ParserInit /\ [][ParserNext]_vars

(***************************************************************************)
(* One run of an analysis graph, from the entry point to its return value  *)
(***************************************************************************)
\* BrandVoiceAnalyzerState(content, brand_voice, options, user_id, tenant_id)
BrandVoiceAnalyzerState(content, brand_voice, options) ==
    [content |-> content, brand_voice |-> brand_voice, options |-> options,
     user_id |-> << >>, tenant_id |-> << >>, analysis_stage |-> "initialized",
     messages |-> << >>, issues |-> << >>, suggestions |-> << >>, scores |-> << >>,
     evidence |-> << >>, analysis_result |-> << >>, error |-> << >>, intent |-> "analyze"]

\* initial_state of invoke_analysis_agent
BrandVoiceAnalysisState(content, brand_voice, options) ==
    [content |-> content, brand_voice |-> brand_voice, options |-> options,
     user_id |-> << >>, tenant_id |-> << >>, analysis_stage |-> "initialized",
     messages |-> << >>]

Init ==
    /\ fn = "none" /\ arg = << >> /\ ret = Pending
    /\ impl \in {"analyzer", "analysis"}
    /\ \E options \in OptionSets :
          graph_state = IF impl = "analyzer"
                        THEN BrandVoiceAnalyzerState(Tx_hey_folks_long, BrandVoice, options)
                        ELSE BrandVoiceAnalysisState(Tx_hey_folks_long, BrandVoice, options)
    /\ pc = IF impl = "analyzer" THEN "invoke_analyzer" ELSE "invoke_analysis_agent"
    /\ llm_log = << >>
    /\ result = << >>
    /\ agent \in IF impl = "analyzer" THEN {"compiled", "None"} ELSE {"None"}
    /\ get_llm_raises \in BOOLEAN
    /\ node_log = << >>
    /\ NoApi
    /\ NoRuns

\* Step that runs the node again after a failed model call: a faulty variant
Step_retry_failed(node, out, new_state, next) ==
    /\ llm_log' = Append(llm_log, [node |-> node, ok |-> out.ok, content |-> out.content])
    /\ graph_state' = IF out.ok THEN new_state ELSE graph_state
    /\ pc' = IF out.ok THEN next ELSE pc
    /\ node_log' = Append(node_log, pc)
    /\ UNCHANGED <<impl, result, agent, get_llm_raises>>
    /\ UNCHANGED call_vars
    /\ UNCHANGED api_vars
    /\ UNCHANGED runs
    /\ UNCHANGED sessions

\* Step with an edge to END once a node has set an error: a faulty variant
Step_stop_on_error(node, out, new_state, next) ==
    /\ llm_log' = Append(llm_log, [node |-> node, ok |-> out.ok, content |-> out.content])
    /\ graph_state' = new_state
    /\ pc' = IF Get(new_state, "error", << >>) # << >> THEN "END" ELSE next
    /\ node_log' = Append(node_log, pc)
    /\ UNCHANGED <<impl, result, agent, get_llm_raises>>
    /\ UNCHANGED call_vars
    /\ UNCHANGED api_vars
    /\ UNCHANGED runs
    /\ UNCHANGED sessions

\* a node that made the model call out: the call is logged, the node's result
\* becomes the state, the edge leads to next
Step(node, out, new_state, next) ==
    /\ llm_log' = Append(llm_log, [node |-> node, ok |-> out.ok, content |-> out.content])
    /\ graph_state' = new_state
    /\ pc' = next
    /\ node_log' = Append(node_log, pc)
    /\ UNCHANGED <<impl, result, agent, get_llm_raises>>
    /\ UNCHANGED call_vars
    /\ UNCHANGED api_vars
    /\ UNCHANGED runs
    /\ UNCHANGED sessions

\* a node that returned without a model call
StepNoCall(new_state, next) ==
    /\ graph_state' = new_state
    /\ pc' = next
    /\ node_log' = Append(node_log, pc)
    /\ UNCHANGED <<impl, result, llm_log, agent, get_llm_raises>>
    /\ UNCHANGED call_vars
    /\ UNCHANGED api_vars
    /\ UNCHANGED runs
    /\ UNCHANGED sessions

\* invoke_analyzer up to the call of the graph: without a compiled graph it
\* returns at once
invoke_analyzer_uninitialized ==
    [success |-> FALSE, error |-> <<[stage |-> "invoke_analyzer", exc |-> "not initialized"]>>,
     analysis_result |-> << >>]

Enter_invoke_analyzer ==
    /\ impl = "analyzer" /\ pc = "invoke_analyzer"
    /\ IF agent = "None"
       THEN result' = <<invoke_analyzer_uninitialized>> /\ pc' = "returned"
       ELSE result' = result /\ pc' = "classify_intent"
    /\ UNCHANGED <<impl, graph_state, llm_log, agent, get_llm_raises, node_log>>
    /\ UNCHANGED call_vars
    /\ UNCHANGED api_vars
    /\ UNCHANGED runs
    /\ UNCHANGED sessions

\* invoke_analysis_agent up to the call of the graph: the agent is created
\* outside the try block, so get_llm() raising leaves through the caller
Enter_invoke_analysis_agent ==
    /\ impl = "analysis" /\ pc = "invoke_analysis_agent"
    /\ IF get_llm_raises
       THEN agent' = agent /\ pc' = "raised"
       ELSE agent' = "compiled" /\ pc' = "content_analyzer"
    /\ UNCHANGED <<impl, graph_state, llm_log, result, get_llm_raises, node_log>>
    /\ UNCHANGED call_vars
    /\ UNCHANGED api_vars
    /\ UNCHANGED runs
    /\ UNCHANGED sessions

\* a node of the analyzer whose get_llm() raised: its except branch, no model call
get_llm_failed(state, stage) == stage_error(state, stage, "get_llm")

Run_classify_intent ==
    /\ impl = "analyzer" /\ pc = "classify_intent"
    /\ StepNoCall(Put(graph_state, "intent", "analyze"), "analyze_content")

Run_analyze_content ==
    /\ impl = "analyzer" /\ pc = "analyze_content"
    /\ IF get_llm_raises
       THEN StepNoCall(get_llm_failed(graph_state, "content analyzer"), "collect_evidence")
       ELSE \E out \in Outcomes(AnalysisResponses) :
               Step("analyze_content", out, analyze_content(graph_state, out), "collect_evidence")

Run_collect_evidence ==
    /\ impl = "analyzer" /\ pc = "collect_evidence"
    /\ IF get_llm_raises
       THEN StepNoCall(get_llm_failed(graph_state, "evidence collector"), "calculate_scores")
       ELSE IF evidence_skipped(graph_state)
       THEN StepNoCall(collect_evidence_skip(graph_state), "calculate_scores")
       ELSE \E out \in Outcomes(EvidenceResponses) :
               Step("collect_evidence", out, collect_evidence(graph_state, out), "calculate_scores")

Run_calculate_scores ==
    /\ impl = "analyzer" /\ pc = "calculate_scores"
    /\ IF get_llm_raises
       THEN StepNoCall(get_llm_failed(graph_state, "score calculator"), "generate_suggestions")
       ELSE \E out \in Outcomes(ScoreResponses) :
               Step("calculate_scores", out, calculate_scores(graph_state, out),
                    "generate_suggestions")

Run_generate_suggestions ==
    /\ impl = "analyzer" /\ pc = "generate_suggestions"
    /\ IF get_llm_raises
       THEN StepNoCall(get_llm_failed(graph_state, "suggestion generator"), "generate_report")
       ELSE IF suggestions_skipped(graph_state)
       THEN StepNoCall(generate_suggestions_skip(graph_state), "generate_report")
       ELSE \E out \in Outcomes(SuggestionResponses) :
               Step("generate_suggestions", out, generate_suggestions(graph_state, out),
                    "generate_report")

Run_generate_report ==
    /\ impl = "analyzer" /\ pc = "generate_report"
    /\ IF get_llm_raises
       THEN StepNoCall(get_llm_failed(graph_state, "analysis report generator"), "END")
       ELSE IF ~report_requested(graph_state)
       THEN StepNoCall(generate_report_plain(graph_state), "END")
       ELSE \E out \in Outcomes(ReportResponses) :
               Step("generate_report", out, generate_report(graph_state, out), "END")

Return_invoke_analyzer ==
    /\ impl = "analyzer" /\ pc = "END"
    /\ result' = <<invoke_analyzer_result(graph_state)>>
    /\ pc' = "returned"
    /\ UNCHANGED <<impl, graph_state, llm_log, agent, get_llm_raises, node_log>>
    /\ UNCHANGED call_vars
    /\ UNCHANGED api_vars
    /\ UNCHANGED runs
    /\ UNCHANGED sessions

Run_content_analyzer ==
    /\ impl = "analysis" /\ pc = "content_analyzer"
    /\ \E out \in Outcomes(AnalysisResponses) :
          Step("content_analyzer", out, ContentAnalyzerNode_call(graph_state, out),
               "evidence_collector")

Run_evidence_collector ==
    /\ impl = "analysis" /\ pc = "evidence_collector"
    /\ IF EvidenceCollectorNode_skipped(graph_state)
       THEN StepNoCall(EvidenceCollectorNode_skip(graph_state), "score_calculator")
       ELSE \E out \in Outcomes(EvidenceResponses) :
               Step("evidence_collector", out, EvidenceCollectorNode_call(graph_state, out),
                    "score_calculator")

Run_score_calculator ==
    /\ impl = "analysis" /\ pc = "score_calculator"
    /\ \E out \in Outcomes(ScoreResponses) :
          Step("score_calculator", out, ScoreCalculatorNode_call(graph_state, out),
               "suggestion_generator")

Run_suggestion_generator ==
    /\ impl = "analysis" /\ pc = "suggestion_generator"
    /\ IF SuggestionGeneratorNode_skipped(graph_state)
       THEN StepNoCall(SuggestionGeneratorNode_skip(graph_state), "analysis_report")
       ELSE \E out \in Outcomes(SuggestionResponses) :
               Step("suggestion_generator", out, SuggestionGeneratorNode_call(graph_state, out),
                    "analysis_report")

Run_analysis_report ==
    /\ impl = "analysis" /\ pc = "analysis_report"
    /\ IF ~report_requested(graph_state)
       THEN StepNoCall(AnalysisReportNode_plain(graph_state), "END")
       ELSE \E out \in Outcomes(ReportResponses) :
               Step("analysis_report", out, AnalysisReportNode_call(graph_state, out), "END")

Return_invoke_analysis_agent ==
    /\ impl = "analysis" /\ pc = "END"
    /\ result' = <<invoke_analysis_agent_result(graph_state)>>
    /\ pc' = "returned"
    /\ UNCHANGED <<impl, graph_state, llm_log, agent, get_llm_raises, node_log>>
    /\ UNCHANGED call_vars
    /\ UNCHANGED api_vars
    /\ UNCHANGED runs
    /\ UNCHANGED sessions

Next ==
    \/ Enter_invoke_analyzer
    \/ Enter_invoke_analysis_agent
    \/ Run_classify_intent
    \/ Run_analyze_content
    \/ Run_collect_evidence
    \/ Run_calculate_scores
    \/ Run_generate_suggestions
    \/ Run_generate_report
    \/ Return_invoke_analyzer
    \/ Run_content_analyzer
    \/ Run_evidence_collector
    \/ Run_score_calculator
    \/ Run_suggestion_generator
    \/ Run_analysis_report
    \/ Return_invoke_analysis_agent

Spec == Init /\ [][Next]_vars

(***************************************************************************)
(* Two invocations of invoke_analyzer at the same time                     *)
(***************************************************************************)
RunIds == {1, 2}

\* the arguments of the two invocations: different content, different options
RunContent(r) == IF r = 1 THEN Tx_hey_folks_long ELSE Tx_hey_folks

RunOptions(r) ==
    IF r = 1 THEN DefaultOptions
    ELSE [include_suggestions |-> TRUE, max_suggestions |-> 1, generate_report |-> FALSE]

\* what the model answers to the calls of the two invocations
ConcurrentResponses(node) ==
    CASE node = "analyze_content" -> {Ln_looks_fine, Rsp_two_issues}
      [] node = "collect_evidence" -> {Rsp_numbered_evidence}
      [] node = "calculate_scores" -> {Rsp_two_scores}
      [] node = "generate_suggestions" -> {Rsp_one_suggestion}
      [] OTHER -> {Tx_report}

NoCall == [ok |-> TRUE, content |-> << >>]

\* whether a node of the graph calls the model for the state dict it is given
NodeCalls(node, state) ==
    CASE node = "classify_intent" -> FALSE
      [] node = "collect_evidence" -> ~evidence_skipped(state)
      [] node = "generate_suggestions" -> ~suggestions_skipped(state)
      [] node = "generate_report" -> report_requested(state)
      [] OTHER -> TRUE

\* what a node of the graph returns for the state dict it is given, out being
\* the outcome of its model call if it makes one
NodeReturn(node, state, out) ==
    CASE node = "classify_intent" -> Put(state, "intent", "analyze")
      [] node = "analyze_content" -> analyze_content(state, out)
      [] node = "collect_evidence" ->
            IF evidence_skipped(state) THEN collect_evidence_skip(state)
            ELSE collect_evidence(state, out)
      [] node = "calculate_scores" -> calculate_scores(state, out)
      [] node = "generate_suggestions" ->
            IF suggestions_skipped(state) THEN generate_suggestions_skip(state)
            ELSE generate_suggestions(state, out)
      [] OTHER ->
            IF ~report_requested(state) THEN generate_report_plain(state)
            ELSE generate_report(state, out)

\* the edges of create_brand_voice_analyzer
NextNode(node) ==
    CASE node = "classify_intent" -> "analyze_content"
      [] node = "analyze_content" -> "collect_evidence"
      [] node = "collect_evidence" -> "calculate_scores"
      [] node = "calculate_scores" -> "generate_suggestions"
      [] node = "generate_suggestions" -> "generate_report"
      [] OTHER -> "END"

\* a state dict that every invocation reads and writes: a faulty variant
invoke_on_shared_state(r, run) ==
    [q \in RunIds |-> IF q = r THEN run ELSE [runs[q] EXCEPT !.graph_state = run.graph_state]]

\* brand_voice_analyzer.invoke(initial_state_dict): the graph works on the dict
\* that this invocation made, no other invocation's dict changes
invoke(r, run) == [runs EXCEPT ![r] = run]

\* invoke_analyzer up to the call of the graph: the invocation makes its own
\* options dict and its own state
Concurrent_invoke_analyzer ==
    /\ \E r \in RunIds :
          /\ runs[r].pc = "invoke_analyzer"
          /\ runs' = invoke(r, [runs[r] EXCEPT
                          !.pc = "classify_intent",
                          !.graph_state = BrandVoiceAnalyzerState(RunContent(r), BrandVoice,
                                                                  RunOptions(r))])
    /\ UNCHANGED call_vars /\ UNCHANGED run_vars /\ UNCHANGED api_vars /\ UNCHANGED sessions

\* one node of the graph in one of the invocations
ConcurrentStep(r, node) ==
    /\ \E out \in IF NodeCalls(node, runs[r].graph_state)
                   THEN Outcomes(ConcurrentResponses(node)) ELSE {NoCall} :
          runs' = invoke(r, [runs[r] EXCEPT
                      !.pc = NextNode(node),
                      !.graph_state = NodeReturn(node, runs[r].graph_state, out),
                      !.node_log = Append(@, node),
                      !.llm_log = IF NodeCalls(node, runs[r].graph_state)
                                  THEN Append(@, [node |-> node, ok |-> out.ok,
                                                  content |-> out.content])
                                  ELSE @])
    /\ UNCHANGED call_vars /\ UNCHANGED run_vars /\ UNCHANGED api_vars /\ UNCHANGED sessions

Concurrent_classify_intent ==
    \E r \in RunIds : runs[r].pc = "classify_intent" /\ ConcurrentStep(r, "classify_intent")

Concurrent_analyze_content ==
    \E r \in RunIds : runs[r].pc = "analyze_content" /\ ConcurrentStep(r, "analyze_content")

Concurrent_collect_evidence ==
    \E r \in RunIds : runs[r].pc = "collect_evidence" /\ ConcurrentStep(r, "collect_evidence")

Concurrent_calculate_scores ==
    \E r \in RunIds : runs[r].pc = "calculate_scores" /\ ConcurrentStep(r, "calculate_scores")

Concurrent_generate_suggestions ==
    \E r \in RunIds : runs[r].pc = "generate_suggestions" /\ ConcurrentStep(r, "generate_suggestions")

Concurrent_generate_report ==
    \E r \in RunIds : runs[r].pc = "generate_report" /\ ConcurrentStep(r, "generate_report")

\* invoke_analyzer after the graph has returned
Concurrent_return ==
    /\ \E r \in RunIds :
          /\ runs[r].pc = "END"
          /\ runs' = [runs EXCEPT ![r].pc = "returned",
                                  ![r].result = <<invoke_analyzer_result(runs[r].graph_state)>>]
    /\ UNCHANGED call_vars /\ UNCHANGED run_vars /\ UNCHANGED api_vars /\ UNCHANGED sessions

\* both invocations have been called; the module-level graph compiled at import
ConcurrentInit ==
    /\ fn = "none" /\ arg = << >> /\ ret = Pending
    /\ impl = "analyzer" /\ pc = "idle" /\ graph_state = << >> /\ llm_log = << >>
    /\ result = << >> /\ agent = "compiled" /\ get_llm_raises = FALSE /\ node_log = << >>
    /\ NoApi
    /\ runs = [r \in RunIds |-> [pc |-> "invoke_analyzer", graph_state |-> << >>,
                                 llm_log |-> << >>, node_log |-> << >>, result |-> << >>]]
    /\ sessions = << >>

ConcurrentNext ==
    \/ Concurrent_invoke_analyzer
    \/ Concurrent_classify_intent
    \/ Concurrent_analyze_content
    \/ Concurrent_collect_evidence
    \/ Concurrent_calculate_scores
    \/ Concurrent_generate_suggestions
    \/ Concurrent_generate_report
    \/ Concurrent_return

ConcurrentSpec == ConcurrentInit /\ [][ConcurrentNext]_vars

(***************************************************************************)
(* The brand-voice routes: app/api/routes/brand_voice_updated.py           *)
(***************************************************************************)
\* the largest BrandVoice.version reached, and the readings of the clock
MaxVersion == 3

MaxClock == 1

\* current_user: the users that get_current_active_user can hand to a route
Users ==
    {[id |-> "admin1", tenant_id |-> "t1", role |-> "admin"],
     [id |-> "business1", tenant_id |-> "t1", role |-> "business_user"],
     [id |-> "business2", tenant_id |-> "t2", role |-> "business_user"],
     [id |-> "specialist2", tenant_id |-> "t2", role |-> "content_specialist"]}

\* generate_uuid: the ids of the rows of brand_voices, in the order they are given out.
\* Every route but the listing addresses one row by its id and touches no other
\* row, so one brand voice is followed.
VoiceIds == <<"bv1">>

\* BrandVoiceCreate bodies
CreateBodies ==
    {[name |-> "V1", description |-> "V1", voice_metadata |-> "V1", dos |-> "V1", donts |-> "V1",
      tenant_id |-> t] : t \in {"t1", "t2", ""}}
    \cup {[name |-> "", description |-> "V1", voice_metadata |-> "V1", dos |-> "V1",
           donts |-> "V1", tenant_id |-> "t1"]}

\* BrandVoiceUpdate bodies as voice.dict(exclude_unset=True): only the keys sent
UpdateBodies ==
    {("name" :> "V2") @@ ("dos" :> "V2"),
     ("status" :> "published"),
     ("donts" :> "V2") @@ ("status" :> "draft"),
     << >>}

\* db.query(BrandVoice).filter(BrandVoice.id == voice_id).first()
voice_found(voice_id) == \E i \in 1..Len(brand_voices) : brand_voices[i].id = voice_id

voice_row(voice_id) == CHOOSE i \in 1..Len(brand_voices) : brand_voices[i].id = voice_id

\* not_authorized that lets business users through as it does admins: a faulty variant
not_authorized_business_exempt(current_user, db_voice) ==
    /\ current_user.tenant_id # db_voice.tenant_id
    /\ current_user.role \notin {"admin", "business_user"}

\* "Check if user belongs to the tenant or is an admin"
not_authorized(current_user, db_voice) ==
    current_user.tenant_id # db_voice.tenant_id /\ current_user.role # "admin"

\* "Check if user has the right role to update brand voices"
not_updater(current_user) == current_user.role \notin {"business_user", "admin"}

\* the tenant checks of create_brand_voice
create_forbidden(current_user, voice) ==
    IF ENV = "development"
    THEN current_user.role # "admin" /\ current_user.tenant_id # voice.tenant_id
    ELSE \/ current_user.role \notin {"business_user", "admin"}
         \/ current_user.tenant_id # voice.tenant_id

\* BrandVoice(**voice.dict(), ...) with the column defaults (published_at 0 is None);
\* the columns no route of this module reads (created_by_id, created_at, updated_at)
\* are left out of both tables
BrandVoice_row(id, voice, tenant_id) ==
    [id |-> id, tenant_id |-> tenant_id, name |-> voice.name, description |-> voice.description,
     version |-> 1, voice_metadata |-> voice.voice_metadata, dos |-> voice.dos,
     donts |-> voice.donts, status |-> "draft", published_at |-> 0]

\* BrandVoiceVersion(...): the snapshot of a brand voice row
BrandVoiceVersion_row(db_voice) ==
    [brand_voice_id |-> db_voice.id, version_number |-> db_voice.version, name |-> db_voice.name,
     description |-> db_voice.description, voice_metadata |-> db_voice.voice_metadata,
     dos |-> db_voice.dos, donts |-> db_voice.donts, status |-> db_voice.status,
     published_at |-> db_voice.published_at]

\* is_significant_change that counts a change of status as well: a faulty variant
is_significant_change_with_status(voice_data) ==
    \E key \in {"name", "description", "voice_metadata", "dos", "donts", "status"} :
        key \in DOMAIN voice_data

\* "a significant change that requires versioning"
is_significant_change(voice_data) ==
    \E key \in {"name", "description", "voice_metadata", "dos", "donts"} : key \in DOMAIN voice_data

\* for key, value in voice_data.items(): setattr(db_voice, key, value)
setattrs(db_voice, voice_data) ==
    [key \in DOMAIN db_voice |-> IF key \in DOMAIN voice_data THEN voice_data[key] ELSE db_voice[key]]

\* the rows of brand_voice_versions of one voice, ordered by version_number descending
RECURSIVE order_by_version_number_desc(_)
order_by_version_number_desc(rows) ==
    IF Len(rows) = 0 THEN << >>
    ELSE LET top == SetMax({rows[i].version_number : i \in 1..Len(rows)})
             k == SetMin({i \in 1..Len(rows) : rows[i].version_number = top})
         IN  <<rows[k]>> \o order_by_version_number_desc(SubSeq(rows, 1, k - 1) \o SubSeq(rows, k + 1, Len(rows)))

versions_of(voice_id) == SelectSeq(brand_voice_versions, LAMBDA v : v.brand_voice_id = voice_id)

\* the rows matched by brand_voice_id == voice_id, version_number == version_number
version_rows(voice_id, version_number) ==
    {i \in 1..Len(brand_voice_versions) :
        /\ brand_voice_versions[i].brand_voice_id = voice_id
        /\ brand_voice_versions[i].version_number = version_number}

\* restored that also takes the status and published_at of the version: a faulty variant
restored_with_status(db_voice, version) ==
    [db_voice EXCEPT !.name = version.name, !.description = version.description,
                     !.voice_metadata = version.voice_metadata, !.dos = version.dos,
                     !.donts = version.donts, !.version = db_voice.version + 1,
                     !.status = version.status, !.published_at = version.published_at]

\* db_voice after restore_brand_voice_version copied the version's data into it
restored(db_voice, version) ==
    [db_voice EXCEPT !.name = version.name, !.description = version.description,
                     !.voice_metadata = version.voice_metadata, !.dos = version.dos,
                     !.donts = version.donts, !.version = db_voice.version + 1]

\* the path parameters a request can carry
RequestedVoiceIds == {VoiceIds[i] : i \in 1..Len(VoiceIds)}

RequestedVersionNumbers == 1..MaxVersion

\* what every route leaves alone
api_frame == UNCHANGED call_vars /\ UNCHANGED run_vars /\ UNCHANGED ENV /\ UNCHANGED runs /\ UNCHANGED sessions

\* raise HTTPException(status_code=...): nothing was committed
HTTPException(handler, current_user, voice_id, version_number, status_code) ==
    /\ response' = Response(handler, current_user, voice_id, version_number, status_code, << >>)
    /\ UNCHANGED <<brand_voices, brand_voice_versions, now, changes>>

\* a read route returns body
Return_read(handler, current_user, voice_id, version_number, body) ==
    /\ response' = Response(handler, current_user, voice_id, version_number, 200, body)
    /\ UNCHANGED <<brand_voices, brand_voice_versions, now, changes>>

\* POST /
create_brand_voice ==
    /\ Len(brand_voices) < Len(VoiceIds)
    /\ \E current_user \in Users, voice \in CreateBodies :
          IF create_forbidden(current_user, voice)
          THEN HTTPException("create_brand_voice", current_user, "", 0, 403)
          ELSE LET tenant_id == IF ENV = "development" /\ current_user.role = "admin"
                                    /\ voice.tenant_id = ""
                                THEN current_user.tenant_id ELSE voice.tenant_id
                   db_voice == BrandVoice_row(VoiceIds[Len(brand_voices) + 1], voice, tenant_id)
               IN  /\ brand_voices' = Append(brand_voices, db_voice)
                   /\ changes' = Append(changes, [updates |-> 0, restores |-> 0])
                   /\ response' = Response("create_brand_voice", current_user, db_voice.id, 0,
                                           201, db_voice)
                   /\ UNCHANGED <<brand_voice_versions, now>>
    /\ api_frame

\* GET /
read_brand_voices ==
    /\ \E current_user \in Users, tenant_id \in {"", "t1", "t2"}, status \in {"", "published"} :
          IF tenant_id # "" /\ current_user.tenant_id # tenant_id /\ current_user.role # "admin"
          THEN HTTPException("read_brand_voices", current_user, "", 0, 403)
          ELSE LET tenant == IF tenant_id = "" THEN current_user.tenant_id ELSE tenant_id
                   voices == SelectSeq(brand_voices,
                                       LAMBDA v : /\ v.tenant_id = tenant
                                                  /\ (status # "" => v.status = status))
               IN  Return_read("read_brand_voices", current_user, "", 0, voices)
    /\ api_frame

\* GET /{voice_id}
read_brand_voice ==
    /\ \E current_user \in Users, voice_id \in RequestedVoiceIds :
          IF ~voice_found(voice_id)
          THEN HTTPException("read_brand_voice", current_user, voice_id, 0, 404)
          ELSE LET db_voice == brand_voices[voice_row(voice_id)]
               IN  IF not_authorized(current_user, db_voice)
                   THEN HTTPException("read_brand_voice", current_user, voice_id, 0, 403)
                   ELSE Return_read("read_brand_voice", current_user, voice_id, 0, db_voice)
    /\ api_frame

\* PUT /{voice_id} by current_user with the body voice
update_brand_voice_request(current_user, voice_id, voice) ==
    IF ~voice_found(voice_id)
    THEN HTTPException("update_brand_voice", current_user, voice_id, 0, 404)
    ELSE LET row == voice_row(voice_id)
             db_voice == brand_voices[row]
             publishing == "status" \in DOMAIN voice /\ voice["status"] = "published"
             significant == is_significant_change(voice)
             published == IF publishing THEN voice @@ ("published_at" :> now + 1) ELSE voice
             voice_data == IF significant
                           THEN ("version" :> db_voice.version + 1) @@ published
                           ELSE published
         IN  IF not_authorized(current_user, db_voice)
             THEN HTTPException("update_brand_voice", current_user, voice_id, 0, 403)
             ELSE IF not_updater(current_user)
             THEN HTTPException("update_brand_voice", current_user, voice_id, 0, 403)
             ELSE /\ publishing => now < MaxClock
                  /\ significant => db_voice.version < MaxVersion
                  /\ IF publishing /\ db_voice.name = ""
                     THEN /\ response' = Response("update_brand_voice", current_user,
                                                  voice_id, 0, 400, << >>)
                          /\ now' = now + 1
                          /\ UNCHANGED <<brand_voices, brand_voice_versions, changes>>
                     ELSE /\ brand_voice_versions' =
                                 IF significant
                                 THEN Append(brand_voice_versions,
                                             BrandVoiceVersion_row(db_voice))
                                 ELSE brand_voice_versions
                          /\ brand_voices' =
                                 [brand_voices EXCEPT ![row] = setattrs(db_voice, voice_data)]
                          /\ changes' =
                                 IF significant
                                 THEN [changes EXCEPT ![row].updates = @ + 1]
                                 ELSE changes
                          /\ now' = IF publishing THEN now + 1 ELSE now
                          /\ response' = Response("update_brand_voice", current_user,
                                                  voice_id, 0, 200,
                                                  setattrs(db_voice, voice_data))

\* PUT /{voice_id}
update_brand_voice ==
    /\ \E current_user \in Users, voice_id \in RequestedVoiceIds, voice \in UpdateBodies :
          update_brand_voice_request(current_user, voice_id, voice)
    /\ api_frame

\* GET /{voice_id}/versions
read_brand_voice_versions ==
    /\ \E current_user \in Users, voice_id \in RequestedVoiceIds :
          IF ~voice_found(voice_id)
          THEN HTTPException("read_brand_voice_versions", current_user, voice_id, 0, 404)
          ELSE IF not_authorized(current_user, brand_voices[voice_row(voice_id)])
          THEN HTTPException("read_brand_voice_versions", current_user, voice_id, 0, 403)
          ELSE Return_read("read_brand_voice_versions", current_user, voice_id, 0,
                           order_by_version_number_desc(versions_of(voice_id)))
    /\ api_frame

\* GET /{voice_id}/versions/{version_number}
read_brand_voice_version ==
    /\ \E current_user \in Users, voice_id \in RequestedVoiceIds,
          version_number \in RequestedVersionNumbers :
          IF ~voice_found(voice_id)
          THEN HTTPException("read_brand_voice_version", current_user, voice_id,
                             version_number, 404)
          ELSE IF not_authorized(current_user, brand_voices[voice_row(voice_id)])
          THEN HTTPException("read_brand_voice_version", current_user, voice_id,
                             version_number, 403)
          ELSE IF version_rows(voice_id, version_number) = {}
          THEN HTTPException("read_brand_voice_version", current_user, voice_id,
                             version_number, 404)
          ELSE \E i \in version_rows(voice_id, version_number) :
                  Return_read("read_brand_voice_version", current_user, voice_id,
                              version_number, brand_voice_versions[i])
    /\ api_frame

\* POST /{voice_id}/versions/{version_number}/restore
restore_brand_voice_version ==
    /\ \E current_user \in Users, voice_id \in RequestedVoiceIds,
          version_number \in RequestedVersionNumbers :
          IF ~voice_found(voice_id)
          THEN HTTPException("restore_brand_voice_version", current_user, voice_id,
                             version_number, 404)
          ELSE LET row == voice_row(voice_id)
                   db_voice == brand_voices[row]
               IN  IF not_authorized(current_user, db_voice)
                   THEN HTTPException("restore_brand_voice_version", current_user, voice_id,
                                      version_number, 403)
                   ELSE IF not_updater(current_user)
                   THEN HTTPException("restore_brand_voice_version", current_user, voice_id,
                                      version_number, 403)
                   ELSE IF version_rows(voice_id, version_number) = {}
                   THEN HTTPException("restore_brand_voice_version", current_user, voice_id,
                                      version_number, 404)
                   ELSE /\ db_voice.version < MaxVersion
                        /\ \E i \in version_rows(voice_id, version_number) :
                              LET version == brand_voice_versions[i]
                              IN  /\ brand_voice_versions' =
                                         Append(brand_voice_versions,
                                                BrandVoiceVersion_row(db_voice))
                                  /\ brand_voices' =
                                         [brand_voices EXCEPT ![row] = restored(db_voice, version)]
                                  /\ changes' = [changes EXCEPT ![row].restores = @ + 1]
                                  /\ response' = Response("restore_brand_voice_version",
                                                          current_user, voice_id, version_number,
                                                          200, restored(db_voice, version))
                                  /\ UNCHANGED now
    /\ api_frame

\* the service starts with empty tables, in either environment
ApiInit ==
    /\ fn = "none" /\ arg = << >> /\ ret = Pending
    /\ NoRun
    /\ NoRuns
    /\ ENV \in {"development", "production"}
    /\ brand_voices = << >> /\ brand_voice_versions = << >>
    /\ now = 0 /\ response = NoResponse /\ changes = << >>

ApiNext ==
    \/ create_brand_voice
    \/ read_brand_voices
    \/ read_brand_voice
    \/ update_brand_voice
    \/ read_brand_voice_versions
    \/ read_brand_voice_version
    \/ restore_brand_voice_version

ApiSpec == ApiInit /\ [][ApiNext]_vars

(***************************************************************************)
(* Requests to update_brand_voice and restore_brand_voice_version in       *)
(* progress at the same time, each with the session that get_db gave it    *)
(***************************************************************************)
SessionIds == {1, 2}

\* the users whose requests are followed: one of the voice's tenant, one of another
SessionUsers == {u \in Users : u.role = "business_user"}

\* a session with nothing read and nothing to write
NoSession == [phase |-> "idle"]

\* the session of a request that has run its handler up to db.commit():
\* loaded is db_voice as the query returned it, db_voice the same object after
\* the handler set its attributes, added the objects given to db.add()
Session(handler, current_user, version_number, loaded, db_voice, added) ==
    [phase |-> "commit", handler |-> handler, user |-> current_user,
     version_number |-> version_number, loaded |-> loaded, db_voice |-> db_voice, added |-> added]

\* the version records stored and about to be stored
versions_written ==
    Len(brand_voice_versions)
    + Cardinality({s \in SessionIds : sessions[s] # NoSession /\ sessions[s].added # << >>})

\* db.commit() for db_voice: the UPDATE sets the columns whose attribute was
\* given a value other than the loaded one, on the row as it is now
flush(row, loaded, db_voice) ==
    [key \in DOMAIN row |-> IF db_voice[key] # loaded[key] THEN db_voice[key] ELSE row[key]]

\* PUT /{voice_id}, up to db.commit()
Query_update_brand_voice ==
    /\ \E s \in SessionIds, current_user \in SessionUsers, voice_id \in RequestedVoiceIds,
          voice \in UpdateBodies :
          /\ sessions[s] = NoSession
          /\ IF ~voice_found(voice_id)
             THEN /\ HTTPException("update_brand_voice", current_user, voice_id, 0, 404)
                  /\ UNCHANGED sessions
             ELSE LET db_voice == brand_voices[voice_row(voice_id)]
                      publishing == "status" \in DOMAIN voice /\ voice["status"] = "published"
                      significant == is_significant_change(voice)
                      published == IF publishing THEN voice @@ ("published_at" :> now + 1)
                                   ELSE voice
                      voice_data == IF significant
                                    THEN ("version" :> db_voice.version + 1) @@ published
                                    ELSE published
                  IN  IF not_authorized(current_user, db_voice) \/ not_updater(current_user)
                      THEN /\ HTTPException("update_brand_voice", current_user, voice_id, 0, 403)
                           /\ UNCHANGED sessions
                      ELSE /\ publishing => now < MaxClock
                           /\ significant => versions_written < MaxVersion - 1
                           /\ now' = IF publishing THEN now + 1 ELSE now
                           /\ IF publishing /\ db_voice.name = ""
                              THEN /\ response' = Response("update_brand_voice", current_user,
                                                           voice_id, 0, 400, << >>)
                                   /\ UNCHANGED sessions
                              ELSE /\ sessions' =
                                          [sessions EXCEPT ![s] =
                                              Session("update_brand_voice", current_user, 0,
                                                      db_voice, setattrs(db_voice, voice_data),
                                                      IF significant
                                                      THEN <<BrandVoiceVersion_row(db_voice)>>
                                                      ELSE << >>)]
                                   /\ UNCHANGED response
                           /\ UNCHANGED <<brand_voices, brand_voice_versions, changes>>
    /\ UNCHANGED call_vars /\ UNCHANGED run_vars /\ UNCHANGED ENV /\ UNCHANGED runs

\* POST /{voice_id}/versions/{version_number}/restore, up to db.commit()
Query_restore_brand_voice_version ==
    /\ \E s \in SessionIds, current_user \in SessionUsers, voice_id \in RequestedVoiceIds,
          version_number \in RequestedVersionNumbers :
          /\ sessions[s] = NoSession
          /\ IF ~voice_found(voice_id)
             THEN /\ HTTPException("restore_brand_voice_version", current_user, voice_id,
                                   version_number, 404)
                  /\ UNCHANGED sessions
             ELSE LET db_voice == brand_voices[voice_row(voice_id)]
                  IN  IF not_authorized(current_user, db_voice) \/ not_updater(current_user)
                      THEN /\ HTTPException("restore_brand_voice_version", current_user,
                                            voice_id, version_number, 403)
                           /\ UNCHANGED sessions
                      ELSE IF version_rows(voice_id, version_number) = {}
                      THEN /\ HTTPException("restore_brand_voice_version", current_user,
                                            voice_id, version_number, 404)
                           /\ UNCHANGED sessions
                      ELSE /\ versions_written < MaxVersion - 1
                           /\ \E i \in version_rows(voice_id, version_number) :
                                 sessions' =
                                     [sessions EXCEPT ![s] =
                                         Session("restore_brand_voice_version", current_user,
                                                 version_number, db_voice,
                                                 restored(db_voice, brand_voice_versions[i]),
                                                 <<BrandVoiceVersion_row(db_voice)>>)]
                           /\ UNCHANGED <<brand_voices, brand_voice_versions, now, response,
                                          changes>>
    /\ UNCHANGED call_vars /\ UNCHANGED run_vars /\ UNCHANGED ENV /\ UNCHANGED runs

\* db.commit(); db.refresh(db_voice); return db_voice
Commit ==
    /\ \E s \in SessionIds :
          /\ sessions[s].phase = "commit"
          /\ LET db == sessions[s]
                 row == voice_row(db.loaded.id)
                 committed == flush(brand_voices[row], db.loaded, db.db_voice)
             IN  /\ brand_voice_versions' = brand_voice_versions \o db.added
                 /\ brand_voices' = [brand_voices EXCEPT ![row] = committed]
                 /\ changes' =
                        IF db.added = << >> THEN changes
                        ELSE IF db.handler = "update_brand_voice"
                        THEN [changes EXCEPT ![row].updates = @ + 1]
                        ELSE [changes EXCEPT ![row].restores = @ + 1]
                 /\ response' = Response(db.handler, db.user, db.loaded.id, db.version_number,
                                         200, committed)
          /\ sessions' = [sessions EXCEPT ![s] = NoSession]
    /\ UNCHANGED now
    /\ UNCHANGED call_vars /\ UNCHANGED run_vars /\ UNCHANGED ENV /\ UNCHANGED runs

\* a brand voice of tenant t1 has been created and no request is in progress
SessionInit ==
    /\ fn = "none" /\ arg = << >> /\ ret = Pending
    /\ NoRun
    /\ runs = << >>
    /\ ENV = "production"
    /\ \E voice \in CreateBodies :
          /\ voice.tenant_id = "t1"
          /\ brand_voices = <<BrandVoice_row(VoiceIds[1], voice, "t1")>>
    /\ brand_voice_versions = << >>
    /\ now = 0 /\ response = NoResponse /\ changes = <<[updates |-> 0, restores |-> 0]>>
    /\ sessions = [s \in SessionIds |-> NoSession]

SessionNext ==
    \/ Query_update_brand_voice
    \/ Query_restore_brand_voice_version
    \/ Commit

SessionSpec == SessionInit /\ [][SessionNext]_vars

(***************************************************************************)
(* Requests to update_brand_voice alone, with every key a body can set     *)
(***************************************************************************)
UpdateKeys == {"name", "description", "voice_metadata", "dos", "donts", "status"}

\* BrandVoiceUpdate bodies that set one key, or one key and the status
KeyUpdateBodies ==
    {[key \in keys |-> IF key = "status" THEN status ELSE "V2"] :
        keys \in {{}} \cup {{k} : k \in UpdateKeys} \cup {{k, "status"} : k \in UpdateKeys},
        status \in {"draft", "published"}}

\* PUT /{voice_id} with any of these bodies
update_brand_voice_keys ==
    /\ \E current_user \in SessionUsers, voice_id \in RequestedVoiceIds,
          voice \in KeyUpdateBodies :
          update_brand_voice_request(current_user, voice_id, voice)
    /\ api_frame

\* a brand voice of tenant t1 has been created
UpdateInit ==
    /\ fn = "none" /\ arg = << >> /\ ret = Pending
    /\ NoRun
    /\ NoRuns
    /\ ENV = "production"
    /\ \E voice \in CreateBodies :
          /\ voice.tenant_id = "t1"
          /\ brand_voices = <<BrandVoice_row(VoiceIds[1], voice, "t1")>>
    /\ brand_voice_versions = << >>
    /\ now = 0 /\ response = NoResponse /\ changes = <<[updates |-> 0, restores |-> 0]>>

UpdateSpec == UpdateInit /\ [][update_brand_voice_keys]_vars

(***************************************************************************)
(* Properties of the parsers (checked under ParserSpec)                    *)
(***************************************************************************)
IsScoreParser == fn \in {"parse_scores", "ScoreCalculatorNode._parse_scores"}

InUnitRange(v) == 0 <= v /\ v <= Unit

\* C1: for every response text, the score map returned by parse_scores and by
\* ScoreCalculatorNode._parse_scores has exactly the five keys overall,
\* personality, tonality, dos, donts, and every value lies in [0, 1].
C1_ScoreMapHasFiveKeysInRange ==
    (IsScoreParser /\ ret.done) =>
        /\ ~ret.err
        /\ DOMAIN ret.val = ScoreKeys
        /\ \A k \in ScoreKeys : InUnitRange(ret.val[k])

\* a response with a value above 100 was parsed and the value came out as 1.0
C1_ClampedScoreReturned ==
    /\ fn = "ScoreCalculatorNode._parse_scores" /\ ret.done
    /\ arg = Ln_don_ts_107
    /\ ret.val[k_donts] = Unit

\* the keys that the scan of parse_scores assigned for a response
RecoveredByParseScores(response_text) ==
    LET lines == split(response_text, <<"\n">>)
    IN  {parse_scores_line(lines[i])[1] :
            i \in {j \in 1..Len(lines) : parse_scores_line(lines[j]) # << >>}}

\* the scores that the scan of ScoreCalculatorNode._parse_scores recovered
RecoveredByScoreCalculatorNode(response_text) ==
    ScoreCalculatorNode_scan(split(response_text, <<"\n">>), << >>)

\* v is sum(f[k] for k in S) / len(S), to the precision of Unit
IsMeanOf(v, f, S) ==
    LET total == SumOf(f, S)
        n == Cardinality(S)
    IN  v * n <= total /\ total < (v + 1) * n

IsIssueParser == fn \in {"parse_issues", "ContentAnalyzerNode._parse_issues"}

\* C3: every issue returned by parse_issues and by ContentAnalyzerNode._parse_issues
\* has a non-empty text, whether it was flushed at the next marker line or at the
\* end of the input.
C3_IssueTextNonEmpty ==
    (IsIssueParser /\ ret.done /\ ~ret.err) =>
        \A i \in 1..Len(ret.val) : ret.val[i].text # << >>

\* ContentAnalyzerNode._parse_issues returned the issue it flushed at the second
\* marker line, whose text is empty
C3_EmptyTextFlushedAtMarker ==
    /\ fn = "ContentAnalyzerNode._parse_issues" /\ ret.done /\ ~ret.err
    /\ arg = join_lines(<<Ln_issue_too_casual, Ln_problem_empty>>)
    /\ Len(ret.val) = 1
    /\ ret.val[1].text = << >>

IsSuggestionParser == fn \in {"parse_suggestions", "SuggestionGeneratorNode._parse_suggestions"}

\* C4: every suggestion returned by parse_suggestions and by
\* SuggestionGeneratorNode._parse_suggestions has a non-empty original_text and a
\* non-empty suggested_text: a block without an original or without a suggested
\* line is discarded.
C4_SuggestionTextsNonEmpty ==
    (IsSuggestionParser /\ ret.done) =>
        \A i \in 1..Len(ret.val) :
            ret.val[i].original_text # << >> /\ ret.val[i].suggested_text # << >>

\* parse_suggestions returned a block that had neither an original nor a suggested line
C4_BareBlockReturned ==
    /\ fn = "parse_suggestions" /\ ret.done
    /\ arg = Ln_1_soften
    /\ Len(ret.val) = 1
    /\ ret.val[1].original_text = << >> /\ ret.val[1].suggested_text = << >>

\* the value of a numeral with at most one decimal point, in units of 1/Unit
ScaleValue(tok) == float_of(tok).val

\* the scale rule of the specification, on a value v >= 0
ScaleRule(v) ==
    IF v <= Unit THEN v
    ELSE IF v <= 10 * Unit THEN v \div 10
    ELSE IF v <= 100 * Unit THEN v \div 100
    ELSE Unit

\* C8: on a score line the first numeric token v is mapped to v when 0 <= v <= 1,
\* to v/10 when 1 < v <= 10, to v/100 when 10 < v <= 100 and to 1.0 when v > 100,
\* in both score parsers; so 7, 70 and 0.7 give 0.7 and 107 gives 1.0, and the
\* result is in [0, 1].
C8_ScaleNormalization ==
    (IsScoreParser /\ ret.done) =>
        /\ \A tok \in ScaleTokens :
              arg = Pfx_overall \o tok =>
                 /\ ret.val[k_overall] = ScaleRule(ScaleValue(tok))
                 /\ InUnitRange(ret.val[k_overall])
        /\ arg \in {Pfx_overall \o <<"7">>, Pfx_overall \o <<"7", "0">>,
                    Pfx_overall \o <<"0", ".", "7">>} => ret.val[k_overall] = (7 * Unit) \div 10
        /\ arg = Pfx_overall \o <<"1", "0", "7">> => ret.val[k_overall] = Unit
        /\ arg = Ln_personality_7 => ret.val[k_personality] = (7 * Unit) \div 10

\* parse_scores read 70 on the 0-100 scale
C8_PercentScaleRead ==
    /\ fn = "parse_scores" /\ ret.done
    /\ arg = Pfx_overall \o <<"7", "0">>
    /\ ret.val[k_overall] = (7 * Unit) \div 10

\* the clamp of the specification
ClampSeverity(x) ==
    IF x < Unit \div 10 THEN Unit \div 10
    ELSE IF x > (9 * Unit) \div 10 THEN (9 * Unit) \div 10
    ELSE x

\* the (line, word) pairs of an evidence list with the word in the lowered line
WordHits(evidence, words) ==
    {<<i, j>> \in (1..Len(evidence)) \X (1..Len(words)) : contains(lower(evidence[i]), words[j])}

\* the lines of an evidence list that contain at least one of the words
LineHits(evidence, words) == {h[1] : h \in WordHits(evidence, words)}

\* C7, as the code has it: calculate_severity(evidence) is the clamp to [0.1, 0.9]
\* of 0.5 + 0.1*S - 0.05*M, where S is the number of pairs (line, strong word) with
\* the word in the line and M the number of pairs (line, medium word): a line counts
\* once for every word of the vocabulary it contains. The single line 'This phrase
\* is extremely informal' gives 0.6.
C7_SeverityCountsWordsInLines ==
    (fn = "calculate_severity" /\ ret.done) =>
        /\ ret.val = ClampSeverity(Unit \div 2
                        + (Unit \div 10) * Cardinality(WordHits(arg, strong_words))
                        - (Unit \div 20) * Cardinality(WordHits(arg, medium_words)))
        /\ arg = <<Ev_extremely>> => ret.val = (6 * Unit) \div 10

\* one line with two strong words gave 0.7
C7_TwoWordsInOneLine ==
    /\ fn = "calculate_severity" /\ ret.done
    /\ arg = <<Ev_completely_totally>>
    /\ Cardinality(LineHits(arg, strong_words)) = 1
    /\ ret.val = (7 * Unit) \div 10

\* C7 as stated: S is the number of evidence lines that contain at least one strong
\* word and M the number of lines that contain at least one medium word, each line
\* counted once per vocabulary.
C7_SeverityCountsLines ==
    (fn = "calculate_severity" /\ ret.done) =>
        ret.val = ClampSeverity(Unit \div 2
                     + (Unit \div 10) * Cardinality(LineHits(arg, strong_words))
                     - (Unit \div 20) * Cardinality(LineHits(arg, medium_words)))

(***************************************************************************)
(* Properties of a run (checked under Spec)                                *)
(***************************************************************************)
IssuesOf(state) == Get(state, "issues", << >>)

SuggestionsOf(state) == Get(state, "suggestions", << >>)

\* the suggestion stage has returned
SuggestionStageDone == pc \in {"generate_report", "analysis_report", "END", "returned"}

\* C5: the suggestions list that the suggestion stage stores in the state never has
\* more than options.max_suggestions items, however many suggestion blocks the
\* response contains, and it is the empty list when include_suggestions is false
\* or issues is empty (generate_suggestions and SuggestionGeneratorNode).
C5_SuggestionsWithinMax ==
    SuggestionStageDone =>
        /\ Len(SuggestionsOf(graph_state)) <= graph_state.options.max_suggestions
        /\ (~graph_state.options.include_suggestions \/ IssuesOf(graph_state) = << >>)
              => SuggestionsOf(graph_state) = << >>

\* generate_suggestions stored three suggestions under max_suggestions = 1
C5_ThreeStoredUnderMaxOne ==
    /\ impl = "analyzer" /\ SuggestionStageDone
    /\ graph_state.options.max_suggestions = 1
    /\ Len(SuggestionsOf(graph_state)) = 3

Tx_violates_formal_tonality == SubSeq(Ln_Explanation_formal, 14, Len(Ln_Explanation_formal))

\* the content stage has just returned and the model answered it with the two
\* lines 'Issue: too casual' and 'Explanation: violates formal tonality'
AfterSingleIssueResponse ==
    /\ pc \in {"collect_evidence", "evidence_collector"}
    /\ Len(llm_log) = 1 /\ llm_log[1].ok
    /\ llm_log[1].content = Rsp_one_issue

\* C9: for the response 'Issue: too casual' / 'Explanation: violates formal
\* tonality' the content stage completes without error and stores exactly one
\* issue, whose issue_type is tonality_mismatch and whose explanation is 'violates
\* formal tonality'.
C9_SingleIssueScenario ==
    AfterSingleIssueResponse =>
        /\ Get(graph_state, "error", << >>) = << >>
        /\ Len(IssuesOf(graph_state)) = 1
        /\ IssuesOf(graph_state)[1].issue_type = "tonality_mismatch"
        /\ IssuesOf(graph_state)[1].explanation = Tx_violates_formal_tonality

\* ContentAnalyzerNode ended in its except branch on that response: the split on
\* "explanation:" of the line 'Explanation: ...' has one part only
C9_ContentAnalyzerNodeRaised ==
    /\ impl = "analysis" /\ AfterSingleIssueResponse
    /\ graph_state.error = <<[stage |-> "content analyzer", exc |-> "IndexError"]>>
    /\ IssuesOf(graph_state) = << >>

\* every model call of the run returned
AllCallsOk == \A i \in 1..Len(llm_log) : llm_log[i].ok

\* the response to the content stage parses to an empty list of issues
YieldsZeroIssues ==
    /\ Len(llm_log) >= 1
    /\ llm_log[1].node \in {"analyze_content", "content_analyzer"}
    /\ llm_log[1].ok
    /\ IF impl = "analyzer" THEN parse_issues(llm_log[1].content) = << >>
       ELSE LET parsed == ContentAnalyzerNode_parse_issues(llm_log[1].content)
            IN  ~parsed.err /\ parsed.val = << >>

\* the response to the scoring stage
ScoringResponse ==
    llm_log[CHOOSE i \in 1..Len(llm_log) : llm_log[i].node \in {"calculate_scores", "score_calculator"}].content

\* the five scores of an analysis_result, by score key
ScoresOfResult(analysis_result) ==
    (k_overall :> analysis_result.overall_score) @@ (k_personality :> analysis_result.personality_score)
    @@ (k_tonality :> analysis_result.tonality_score) @@ (k_dos :> analysis_result.dos_alignment)
    @@ (k_donts :> analysis_result.donts_alignment)

\* what the zero-issue scenario has apart from the scores
ZeroIssueOutcome ==
    /\ result[1].success
    /\ graph_state.evidence = << >>
    /\ result[1].analysis_result.highlighted_sections = << >>
    /\ result[1].analysis_result.suggestions = << >>
    /\ result[1].analysis_result.analysis_metadata.issue_count = 0
    /\ result[1].analysis_result.analysis_metadata.suggestion_count = 0
    /\ \A i \in 1..Len(llm_log) :
          llm_log[i].node \notin {"collect_evidence", "evidence_collector",
                                  "generate_suggestions", "suggestion_generator"}

\* C10: when the analysis response of a run of invoke_analyzer yields zero issues and
\* every model call succeeds, the run ends with success = true, evidence = {},
\* highlighted_sections = [], suggestions = [], issue_count = 0 and
\* suggestion_count = 0, each of the five scores is 0.5 unless it was parsed from
\* the scoring response, and neither the evidence stage nor the suggestion stage
\* calls the model.
C10_ZeroIssuesRun ==
    (impl = "analyzer" /\ pc = "returned" /\ YieldsZeroIssues /\ AllCallsOk) =>
        /\ ZeroIssueOutcome
        /\ LET scores == ScoresOfResult(result[1].analysis_result)
           IN  \A k \in ScoreKeys \ RecoveredByParseScores(ScoringResponse) :
                  scores[k] = Unit \div 2

\* a run of invoke_analyzer with no issue, two scores parsed and three left at 0.5
\* has returned
C10_ZeroIssuesRunReturned ==
    /\ impl = "analyzer" /\ pc = "returned" /\ YieldsZeroIssues /\ AllCallsOk
    /\ ScoringResponse = Rsp_two_scores
    /\ result[1].success
    /\ result[1].analysis_result.overall_score = (8 * Unit) \div 10
    /\ result[1].analysis_result.personality_score = Unit \div 2
    /\ Len(llm_log) = 3

(***************************************************************************)
(* The report stage                                                        *)
(***************************************************************************)
ReportNodes == {"generate_report", "analysis_report"}

\* the report node has run
ReportStageDone ==
    /\ pc \in {"END", "returned"}
    /\ Len(node_log) >= 1
    /\ node_log[Len(node_log)] \in ReportNodes

\* the keys of an AnalysisResult without the narrative report
NumericFields ==
    {"overall_score", "personality_score", "tonality_score", "dos_alignment", "donts_alignment",
     "highlighted_sections", "suggestions", "analysis_metadata"}

\* analysis_result is stored with the numeric fields, filled from scores, issues
\* and suggestions of the state
NumericFieldsPopulated(state) ==
    /\ "analysis_result" \in DOMAIN state
    /\ NumericFields \subseteq DOMAIN state.analysis_result
    /\ LET r == state.analysis_result
       IN  /\ \A f \in {"overall_score", "personality_score", "tonality_score",
                        "dos_alignment", "donts_alignment"} : InUnitRange(r[f])
           /\ r.overall_score = Get(Get(state, "scores", << >>), k_overall, Unit \div 2)
           /\ r.highlighted_sections = IssuesOf(state)
           /\ r.suggestions = SuggestionsOf(state)
           /\ r.analysis_metadata.issue_count = Len(IssuesOf(state))
           /\ r.analysis_metadata.suggestion_count = Len(SuggestionsOf(state))
           /\ r.analysis_metadata.content_length = Len(state.content)

SomethingFailed ==
    \/ impl = "analyzer" /\ agent = "None"
    \/ get_llm_raises
    \/ \E i \in 1..Len(llm_log) : ~llm_log[i].ok
    \/ Get(graph_state, "error", << >>) # << >>

\* C12: the entry point (invoke_analyzer, invoke_analysis_agent) never raises to its
\* caller: any failure, including a failure while constructing the agent or
\* obtaining the language model, is returned as {success: false, error: <message>}.
C12_EntryPointNeverRaises ==
    /\ pc # "raised"
    /\ (pc = "returned" /\ SomethingFailed) =>
          /\ ~result[1].success
          /\ "error" \in DOMAIN result[1]
          /\ result[1].error # << >>

\* the final stage recorded in the state of the graph
FinalStage == Get(graph_state, "analysis_stage", "initialized")

\* C13, as the code has it: the entry point returns success = true exactly when the
\* graph ran and its final state has no error set; a run reported as success ends
\* in stage 'completed'.
C13_SuccessIffNoError ==
    pc = "returned" =>
        /\ result[1].success <=> (agent = "compiled" /\ Get(graph_state, "error", << >>) = << >>)
        /\ result[1].success => FinalStage = "completed"

\* a run whose content stage failed and whose report stage succeeded has returned:
\* reported as failed, final stage 'completed'
C13_FailedRunCompleted ==
    /\ pc = "returned"
    /\ ~result[1].success
    /\ FinalStage = "completed"
    /\ Get(graph_state, "error", << >>) # << >>
    /\ graph_state.error[1].stage = "content analyzer"
    /\ "report" \in DOMAIN graph_state.analysis_result

\* C13 as stated: success = true exactly when the run ends in stage 'completed'; a
\* run whose final stage is 'completed' has no error set, and a run reported as
\* failed never has final stage 'completed'.
C13_SuccessIffCompleted ==
    pc = "returned" =>
        /\ result[1].success <=> FinalStage = "completed"
        /\ FinalStage = "completed" => Get(graph_state, "error", << >>) = << >>
        /\ ~result[1].success => FinalStage # "completed"

\* C14: when some stage fails, the value returned by the entry point still carries
\* the partial results accumulated by the stages that succeeded (the issues, the
\* scores), together with the error.
C14_FailureCarriesPartialResults ==
    (pc = "returned" /\ ~result[1].success /\ node_log # << >>) =>
        /\ result[1].error # << >>
        /\ (IssuesOf(graph_state) # << >> \/ Get(graph_state, "scores", << >>) # << >>) =>
              /\ result[1].analysis_result # << >>
              /\ result[1].analysis_result.highlighted_sections = IssuesOf(graph_state)

\* C15: the report stage stores an AnalysisResult with the five score fields,
\* highlighted_sections, suggestions and analysis_metadata in every run in which
\* it is invoked (with a language model at hand), including a run where
\* generate_report is true and the narrative model call fails.
C15_ReportStageAlwaysStoresResult ==
    (ReportStageDone /\ ~get_llm_raises) => NumericFieldsPopulated(graph_state)

(***************************************************************************)
(* Order of the stages and what a failing stage leaves behind              *)
(***************************************************************************)
\* the five stages in the order of the pipeline, by the node that runs each
StageOrder ==
    IF impl = "analyzer"
    THEN <<"analyze_content", "collect_evidence", "calculate_scores", "generate_suggestions",
           "generate_report">>
    ELSE <<"content_analyzer", "evidence_collector", "score_calculator", "suggestion_generator",
           "analysis_report">>

\* the stage nodes invoked so far (classify_intent is not one of the five stages)
StagesInvoked == SelectSeq(node_log, LAMBDA n : n # "classify_intent")

IsPrefix(xs, ys) == Len(xs) <= Len(ys) /\ xs = SubSeq(ys, 1, Len(xs))

\* the values of analysis_stage in the order of the pipeline
StageValues ==
    <<"initialized", "content_analyzed", "evidence_collected", "scores_calculated",
      "suggestions_generated", "completed">>

StageRank(state) ==
    CHOOSE i \in 1..Len(StageValues) : StageValues[i] = Get(state, "analysis_stage", "initialized")

\* C19: in every run of the graph, including runs in which stages fail, each of the
\* five stages is invoked exactly once and in the order content analyzer, evidence
\* collector, score calculator, suggestion generator, report assembler; a stage
\* failure never stops the later stages, and analysis_stage never moves backwards.
C19_StagesOnceInOrder ==
    /\ [](/\ IsPrefix(StagesInvoked, StageOrder)
          /\ (pc = "END" \/ (pc = "returned" /\ agent = "compiled")) => StagesInvoked = StageOrder)
    /\ [][StageRank(graph_state') >= StageRank(graph_state)]_vars

\* a run whose content stage failed has gone through all five stages
C19_AllStagesAfterFailure ==
    /\ pc = "END"
    /\ Len(llm_log) >= 1 /\ ~llm_log[1].ok
    /\ StagesInvoked = StageOrder
    /\ FinalStage = "completed"

\* the stage name a node writes into its error message
StageName(node) ==
    CASE node \in {"analyze_content", "content_analyzer"} -> "content analyzer"
      [] node \in {"collect_evidence", "evidence_collector"} -> "evidence collector"
      [] node \in {"calculate_scores", "score_calculator"} -> "score calculator"
      [] node \in {"generate_suggestions", "suggestion_generator"} -> "suggestion generator"
      [] node \in ReportNodes -> "analysis report generator"

\* the value of analysis_stage a node advances to
StageValueOf(node) ==
    CASE node \in {"analyze_content", "content_analyzer"} -> "content_analyzed"
      [] node \in {"collect_evidence", "evidence_collector"} -> "evidence_collected"
      [] node \in {"calculate_scores", "score_calculator"} -> "scores_calculated"
      [] node \in {"generate_suggestions", "suggestion_generator"} -> "suggestions_generated"
      [] node \in ReportNodes -> "completed"

IsStageNode(node) == \E i \in 1..Len(StageOrder) : StageOrder[i] = node

\* the step that runs the node pc fails: get_llm() raised, the model call raised,
\* or ContentAnalyzerNode._parse_issues raised on the response
StageFails ==
    \/ impl = "analyzer" /\ get_llm_raises
    \/ /\ Len(llm_log') = Len(llm_log) + 1
       /\ LET call == llm_log'[Len(llm_log')]
          IN  \/ ~call.ok
              \/ pc = "content_analyzer" /\ ContentAnalyzerNode_parse_issues(call.content).err

\* every key but error and messages is what it was
ResultFieldsUnchanged ==
    \A k \in (DOMAIN graph_state \cup DOMAIN graph_state') \ {"error", "messages"} :
        /\ k \in DOMAIN graph_state /\ k \in DOMAIN graph_state'
        /\ graph_state'[k] = graph_state[k]

\* C20: a stage that fails sets state.error to 'Error in <stage name>: <message>' and
\* leaves analysis_stage and every result field (issues, evidence, scores,
\* suggestions, analysis_result) as they were, only error and messages change; a
\* stage that does not fail advances analysis_stage to its own value and does not
\* set error.
C20_FailingStageLeavesResults ==
    [][(IsStageNode(pc) /\ pc' # pc) =>
          IF StageFails
          THEN /\ Len(graph_state'.error) = 1
               /\ graph_state'.error[1].stage = StageName(pc)
               /\ ResultFieldsUnchanged
               /\ Len(graph_state'.messages) = Len(Get(graph_state, "messages", << >>)) + 1
          ELSE /\ graph_state'.analysis_stage = StageValueOf(pc)
               /\ Get(graph_state', "error", << >>) = Get(graph_state, "error", << >>)]_vars

\* the evidence stage has failed after two issues and left them as they were
C20_EvidenceStageFailedAfterIssues ==
    /\ pc \in {"calculate_scores", "score_calculator"}
    /\ Get(graph_state, "error", << >>) # << >>
    /\ graph_state.error[1].stage = "evidence collector"
    /\ Len(IssuesOf(graph_state)) = 2
    /\ FinalStage = "content_analyzed"

(***************************************************************************)
(* Properties of the brand-voice routes (checked under ApiSpec)            *)
(***************************************************************************)
\* the routes that address one brand voice by its id
VoiceRoutes ==
    {"read_brand_voice", "update_brand_voice", "read_brand_voice_versions",
     "read_brand_voice_version", "restore_brand_voice_version"}

\* the step is a restore that was answered with 200
RestoreSucceeds ==
    /\ response'.handler = "restore_brand_voice_version"
    /\ response'.status_code = 200
    /\ brand_voices' # brand_voices

\* C16: restoring version k of a brand voice makes the voice's name, description,
\* voice_metadata, dos and donts equal to those stored in version record k (there is
\* one such record), increments the voice's version by one, and leaves its status
\* and published_at unchanged.
C16_RestoreCopiesVersion ==
    [][RestoreSucceeds =>
        LET row == voice_row(response'.voice_id)
            old == brand_voices[row]
            new == brand_voices'[row]
            records == version_rows(response'.voice_id, response'.version_number)
        IN  /\ Cardinality(records) = 1
            /\ \A i \in records :
                  LET version == brand_voice_versions[i]
                  IN  /\ new.name = version.name
                      /\ new.description = version.description
                      /\ new.voice_metadata = version.voice_metadata
                      /\ new.dos = version.dos
                      /\ new.donts = version.donts
            /\ new.version = old.version + 1
            /\ new.status = old.status
            /\ new.published_at = old.published_at
            /\ new.id = old.id /\ new.tenant_id = old.tenant_id]_vars

\* a published voice was restored to a version recorded while it was a draft: the
\* content is the record's, the status is still published
C16_PublishedVoiceRestoredToDraftRecord ==
    /\ response.handler = "restore_brand_voice_version"
    /\ response.status_code = 200
    /\ voice_found(response.voice_id)
    /\ LET db_voice == brand_voices[voice_row(response.voice_id)]
       IN  /\ db_voice.status = "published"
           /\ db_voice.published_at > 0
           /\ db_voice.version = 3
           /\ \E i \in version_rows(response.voice_id, response.version_number) :
                 /\ brand_voice_versions[i].status = "draft"
                 /\ brand_voice_versions[i].name = "V1"
                 /\ db_voice.name = "V1"
                 /\ db_voice.dos = "V1"

\* the number of entries of the version list of the voice in row `row`
version_list_length(row) == Len(order_by_version_number_desc(versions_of(brand_voices[row].id)))

\* C17: the version list of a brand voice has one entry for the original creation
\* plus one for every significant update and one for every restore: after creation,
\* n significant updates and m restores it has exactly 1 + n + m entries.
C17_VersionListCountsCreation ==
    \A row \in 1..Len(brand_voices) :
        version_list_length(row) = 1 + changes[row].updates + changes[row].restores

\* C18: a user whose role is not admin can read, update, list the versions of, read
\* one version of, or restore a brand voice only when the user's tenant_id equals
\* the voice's tenant_id; every such request on another tenant's voice is rejected
\* with 403 and changes no stored voice or version, while an admin is allowed to
\* read any tenant's voice.
C18_TenantIsolation ==
    [][(response'.handler \in VoiceRoutes /\ voice_found(response'.voice_id)) =>
        LET current_user == response'.user
            db_voice == brand_voices[voice_row(response'.voice_id)]
            other_tenant == current_user.tenant_id # db_voice.tenant_id
        IN  /\ (current_user.role # "admin" /\ other_tenant) =>
                  /\ response'.status_code = 403
                  /\ brand_voices' = brand_voices
                  /\ brand_voice_versions' = brand_voice_versions
            /\ (current_user.role # "admin" /\ response'.status_code = 200) => ~other_tenant
            /\ (current_user.role = "admin" /\ response'.handler = "read_brand_voice") =>
                  /\ response'.status_code = 200
                  /\ response'.body = db_voice]_vars

\* a business user asked to restore an existing version of another tenant's voice
\* and was rejected
C18_OtherTenantRestoreRejected ==
    /\ response.handler = "restore_brand_voice_version"
    /\ response.status_code = 403
    /\ response.user.role = "business_user"
    /\ voice_found(response.voice_id)
    /\ response.user.tenant_id # brand_voices[voice_row(response.voice_id)].tenant_id
    /\ version_rows(response.voice_id, response.version_number) # {}

(***************************************************************************)
(* What the text of a response can do to a stage                           *)
(***************************************************************************)
\* C21: for every model response text the issue, evidence, score and suggestion
\* parsers return without raising, so a stage whose model call succeeded never
\* records an error because of the text it had to parse: in a run in which the
\* language model was obtained and every model call returned, no error is set.
C21_NoErrorFromResponseText ==
    (AllCallsOk /\ ~get_llm_raises) => Get(graph_state, "error", << >>) = << >>

(***************************************************************************)
(* The calls of the language model in a run                                *)
(***************************************************************************)
\* the model calls made so far by the node `node`
CallsOf(node) == {i \in 1..Len(llm_log) : llm_log[i].node = node}

\* C22: each stage calls the language model at most once per run and a failed call
\* is never retried, so one run makes at most five model calls; the evidence stage
\* makes none when issues is empty, the suggestion stage makes none when
\* include_suggestions is false or issues is empty, and the report stage makes
\* none when generate_report is false.
C22_AtMostOneCallPerStage ==
    /\ \A i \in 1..Len(llm_log) : Cardinality(CallsOf(llm_log[i].node)) = 1
    /\ \A i \in 1..Len(llm_log) : IsStageNode(llm_log[i].node)
    /\ Len(llm_log) <= 5
    /\ IssuesOf(graph_state) = << >> =>
          /\ CallsOf("collect_evidence") = {} /\ CallsOf("evidence_collector") = {}
          /\ CallsOf("generate_suggestions") = {} /\ CallsOf("suggestion_generator") = {}
    /\ ~Get(graph_state.options, "include_suggestions", TRUE) =>
          CallsOf("generate_suggestions") = {} /\ CallsOf("suggestion_generator") = {}
    /\ ~Get(graph_state.options, "generate_report", TRUE) =>
          CallsOf("generate_report") = {} /\ CallsOf("analysis_report") = {}

\* a run has ended after five model calls, of which the evidence call failed and
\* was not made again
C22_FiveCallsOneFailed ==
    /\ pc = "END"
    /\ Len(llm_log) = 5
    /\ ~llm_log[2].ok
    /\ llm_log[2].node \in {"collect_evidence", "evidence_collector"}
    /\ llm_log[3].node \in {"calculate_scores", "score_calculator"}

(***************************************************************************)
(* The dos and the donts score lines                                       *)
(***************************************************************************)
\* C23: in parse_scores a score line whose key contains 'don' ("Don'ts Alignment:
\* 0.9", "donts: 0.9") sets the donts score and leaves the dos score unchanged, and
\* a line whose key is 'dos' sets only the dos score: each recognised line updates
\* exactly the one canonical key it names.
C23_DontsLineSetsOnlyDonts ==
    (fn = "parse_scores" /\ ret.done) =>
        /\ arg \in {Ln_don_ts_alignment_09, Ln_donts_09} =>
              /\ ret.val[k_donts] = (9 * Unit) \div 10
              /\ ret.val[k_dos] = Unit \div 2
        /\ arg = Ln_dos_04 =>
              /\ ret.val[k_dos] = (4 * Unit) \div 10
              /\ ret.val[k_donts] = Unit \div 2

(***************************************************************************)
(* The positions of the issues                                             *)
(***************************************************************************)
\* C24: after the evidence stage every issue satisfies
\* 0 <= start_index <= end_index <= len(content); when the searched text does not
\* occur in content the position is (0, 0), never a negative index.
C24_PositionsWithinContent ==
    \A i \in 1..Len(IssuesOf(graph_state)) :
        LET issue == IssuesOf(graph_state)[i]
        IN  /\ 0 <= issue.start_index
            /\ issue.start_index <= issue.end_index
            /\ issue.end_index <= Len(graph_state.content)

(***************************************************************************)
(* The attribution of evidence lines to issues                             *)
(***************************************************************************)
\* the number of the issue that a marker line names, 0 for a line that is no marker
NamedIssue(line) ==
    CASE line \in {Ln_1_tone, Ln_issue_1} -> 1
      [] line \in {Ln_10_tone, Ln_issue_10} -> 10
      [] OTHER -> 0

\* the evidence text of an evidence line: what follows "Evidence:" or the bullet,
\* or the whole line of the named format
EvidenceTextOf(line) ==
    CASE line = Ln_evidence_hey -> Tx_hey_folks
      [] line = Ln_bullet_bit -> strip(Tail(line))
      [] OTHER -> line

\* the attribution that the specification describes: an evidence line goes to the
\* issue named by the last marker before it, and to no issue before any marker
RECURSIVE Attributed(_, _, _)
Attributed(lines, current, acc) ==
    IF Len(lines) = 0 THEN acc
    ELSE IF NamedIssue(lines[1]) > 0 THEN Attributed(Tail(lines), NamedIssue(lines[1]), acc)
    ELSE IF current = 0 \/ lines[1] = << >> THEN Attributed(Tail(lines), current, acc)
    ELSE Attributed(Tail(lines), current,
                    [acc EXCEPT ![current] = Append(@, EvidenceTextOf(lines[1]))])

AttributedEvidence(response_text) ==
    Attributed(split(response_text, <<"\n">>), 0, [n \in 1..Len(EvidenceHarnessIssues) |-> << >>])

IsEvidenceParser == fn \in {"extract_evidence", "EvidenceCollectorNode._extract_evidence"}

\* C25: in the evidence parser the evidence lines that follow the marker for issue n
\* (1-based) are attributed to issue n and to no other issue, for every n from 1 to
\* the number of issues (including n >= 10); evidence lines that appear before any
\* marker are attributed to no issue.
C25_EvidenceAttributedToNamedIssue ==
    (IsEvidenceParser /\ ret.done) =>
        \A n \in 1..Len(EvidenceHarnessIssues) :
            Get(ret.val, n, << >>) = AttributedEvidence(arg)[n]

(***************************************************************************)
(* The issue a suggestion is linked to                                     *)
(***************************************************************************)
\* the issue list that generate_suggestions hands to parse_suggestions
IssuesGivenToParser ==
    take(sorted_by_severity(IssuesOf(graph_state)),
         Get(graph_state.options, "max_suggestions", 5))

\* the positions in issues of the issues whose text contains original_text
MatchingIssues(original_text, issues) ==
    {i \in 1..Len(issues) : original_text # << >> /\ contains(issues[i].text, original_text)}

\* C26: in parse_suggestions a suggestion gets issue_id equal to the id of the first
\* issue (in the order of the issue list given to the parser) whose text contains
\* the suggestion's non-empty original_text, and has no issue_id when no issue
\* matches; hence every issue_id carried by a suggestion in the state is the id of
\* an issue present in state.issues.
C26_IssueIdIsFirstMatch ==
    (impl = "analyzer" /\ SuggestionStageDone) =>
        \A k \in 1..Len(SuggestionsOf(graph_state)) :
            LET suggestion == SuggestionsOf(graph_state)[k]
                hit == MatchingIssues(suggestion.original_text, IssuesGivenToParser)
            IN  /\ hit = {} => suggestion.issue_id = << >>
                /\ hit # {} => suggestion.issue_id = <<IssuesGivenToParser[SetMin(hit)].id>>
                /\ suggestion.issue_id # << >> =>
                      \E i \in 1..Len(IssuesOf(graph_state)) :
                          IssuesOf(graph_state)[i].id = suggestion.issue_id[1]

\* the text of both issues contains the original text, the second issue is the
\* more severe and so the first given to the parser, and the suggestion is linked
\* to it
C26_LinkedToMoreSevereIssue ==
    /\ impl = "analyzer" /\ SuggestionStageDone
    /\ Len(SuggestionsOf(graph_state)) = 1
    /\ Len(IssuesOf(graph_state)) = 2
    /\ Cardinality(MatchingIssues(SuggestionsOf(graph_state)[1].original_text,
                                  IssuesOf(graph_state))) = 2
    /\ IssuesOf(graph_state)[2].severity > IssuesOf(graph_state)[1].severity
    /\ SuggestionsOf(graph_state)[1].issue_id = <<IssuesOf(graph_state)[2].id>>

(***************************************************************************)
(* What the stages after the evidence stage leave alone                    *)
(***************************************************************************)
\* the nodes of the score, suggestion and report stages
LaterStageNodes ==
    {"calculate_scores", "generate_suggestions", "generate_report",
     "score_calculator", "suggestion_generator", "analysis_report"}

\* the step leaves the key as it is: absent, or present with the same value
KeyUnchanged(key) ==
    /\ (key \in DOMAIN graph_state') = (key \in DOMAIN graph_state)
    /\ Get(graph_state', key, << >>) = Get(graph_state, key, << >>)

\* C27: once the evidence stage has finished, no later stage (score calculator,
\* suggestion generator, report assembler) changes state.evidence or any field of
\* any issue, and the order of state.issues is unchanged by the severity ranking
\* done for suggestions; no stage ever changes content, brand_voice or options.
C27_LaterStagesLeaveIssuesAndEvidence ==
    [][/\ pc \in LaterStageNodes => (KeyUnchanged("evidence") /\ KeyUnchanged("issues"))
       /\ KeyUnchanged("content") /\ KeyUnchanged("brand_voice") /\ KeyUnchanged("options")]_vars

\* the suggestion stage ranked two issues of which the second is the more severe,
\* and the run ended with the issues in their original order
C27_RankedIssuesKeptInOrder ==
    /\ pc = "END"
    /\ Len(IssuesOf(graph_state)) = 2
    /\ IssuesOf(graph_state)[2].severity > IssuesOf(graph_state)[1].severity
    /\ IssuesOf(graph_state)[1].text = <<"t","o","n","e">>
    /\ Len(SuggestionsOf(graph_state)) >= 1
    /\ CallsOf(IF impl = "analyzer" THEN "generate_suggestions" ELSE "suggestion_generator") # {}

(***************************************************************************)
(* Two invocations of invoke_analyzer whose stages interleave              *)
(***************************************************************************)
\* the model's answer that the invocation logged for its next call
LoggedOut(log) == [ok |-> Head(log).ok, content |-> Head(log).content]

\* the state an invocation reaches alone: the first n nodes from node on,
\* run one after the other on state with the answers in log
RECURSIVE Alone(_, _, _, _)
Alone(state, node, log, n) ==
    IF n = 0 THEN state
    ELSE LET called == NodeCalls(node, state)
             returned == NodeReturn(node, state, IF called THEN LoggedOut(log) ELSE NoCall)
         IN  IF called /\ log = << >> THEN state
             ELSE Alone(returned, NextNode(node), IF called THEN Tail(log) ELSE log, n - 1)

\* what invocation r would have in its state had it run alone so far
AloneState(r) ==
    Alone(BrandVoiceAnalyzerState(RunContent(r), BrandVoice, RunOptions(r)), "classify_intent",
          runs[r].llm_log, Len(runs[r].node_log))

RunStarted(r) == runs[r].pc # "invoke_analyzer"

ResultKeys == {"issues", "evidence", "scores", "suggestions", "analysis_stage", "error"}

\* C28: with two invocations of invoke_analyzer in progress at once, their
\* stages interleaved in any order, the issues, evidence, scores, suggestions,
\* stage and error in the state of each are those it would have had it run
\* alone on its own arguments with the same answers of the model, and so is
\* the value it returns.
C28_ConcurrentRunsDoNotInterfere ==
    runs # << >> =>
        \A r \in RunIds :
            RunStarted(r) =>
                LET alone == AloneState(r)
                IN  /\ \A key \in ResultKeys : runs[r].graph_state[key] = alone[key]
                    /\ runs[r].graph_state = alone
                    /\ runs[r].pc = "returned" =>
                           runs[r].result = <<invoke_analyzer_result(alone)>>

\* both invocations are in the middle of the graph, the first with issues and
\* evidence, the second with an error of its content analyzer
C28_BothMidRunWithDifferentStates ==
    /\ runs # << >>
    /\ runs[1].pc = "generate_suggestions" /\ runs[2].pc = "calculate_scores"
    /\ runs[1].graph_state.issues # << >> /\ runs[1].graph_state.error = << >>
    /\ runs[2].graph_state.issues = << >> /\ runs[2].graph_state.error # << >>

(***************************************************************************)
(* The version numbers recorded for a brand voice                          *)
(***************************************************************************)
\* no two version records of voice_id carry the same version_number
version_numbers_distinct(voice_id) ==
    \A i, j \in 1..Len(brand_voice_versions) :
        (/\ i # j
         /\ brand_voice_versions[i].brand_voice_id = voice_id
         /\ brand_voice_versions[j].brand_voice_id = voice_id)
        => brand_voice_versions[i].version_number # brand_voice_versions[j].version_number

\* every version record of voice_id carries a number below the voice's version
version_numbers_below_current(voice_id) ==
    \A i \in 1..Len(brand_voice_versions) :
        brand_voice_versions[i].brand_voice_id = voice_id
        => brand_voice_versions[i].version_number < brand_voices[voice_row(voice_id)].version

\* C29: for every brand voice, whatever update and restore requests were made,
\* two of them in progress at once included, no two of its version records
\* have the same version_number and every recorded version_number is less than
\* the voice's current version.
C29_VersionNumbersDistinctAndBelowCurrent ==
    \A k \in 1..Len(brand_voices) :
        /\ version_numbers_distinct(brand_voices[k].id)
        /\ version_numbers_below_current(brand_voices[k].id)

(***************************************************************************)
(* What an update stores as a version                                      *)
(***************************************************************************)
ContentKeys == {"name", "description", "voice_metadata", "dos", "donts"}

\* this step is the update of voice_id with the body voice, answered with 200
UpdateSucceeds(voice_id, voice) ==
    /\ \E current_user \in SessionUsers : update_brand_voice_request(current_user, voice_id, voice)
    /\ response'.status_code = 200

\* the step left the version records and the version of voice_id as they were
NoVersionStored(voice_id) ==
    /\ brand_voice_versions' = brand_voice_versions
    /\ brand_voices'[voice_row(voice_id)].version = brand_voices[voice_row(voice_id)].version

\* the step added one version record, the voice as it was before the step,
\* and raised the version of voice_id by one
OneVersionStored(voice_id) ==
    LET before == brand_voices[voice_row(voice_id)]
        stored == brand_voice_versions'[Len(brand_voice_versions')]
    IN  /\ Len(brand_voice_versions') = Len(brand_voice_versions) + 1
        /\ SubSeq(brand_voice_versions', 1, Len(brand_voice_versions)) = brand_voice_versions
        /\ stored.brand_voice_id = voice_id
        /\ stored.version_number = before.version
        /\ stored.name = before.name /\ stored.description = before.description
        /\ stored.voice_metadata = before.voice_metadata
        /\ stored.dos = before.dos /\ stored.donts = before.donts
        /\ stored.status = before.status
        /\ brand_voices'[voice_row(voice_id)].version = before.version + 1

\* C30: an update whose body sets none of name, description, voice_metadata,
\* dos and donts (only the status, say) stores no version record and leaves the
\* version of the voice as it was; an update whose body sets any of them
\* stores exactly one version record, with the content, status and version
\* number the voice had just before, and raises the version by one.
C30_UpdateStoresVersionForContentOnly ==
    [][\A voice_id \in RequestedVoiceIds, voice \in KeyUpdateBodies :
          UpdateSucceeds(voice_id, voice) =>
              IF DOMAIN voice \cap ContentKeys = {}
              THEN NoVersionStored(voice_id)
              ELSE OneVersionStored(voice_id)]_vars

\* a voice was published by an update of the status alone and then given a new
\* description: its one version record is the published voice at version 1
C30_PublishedThenDescribed ==
    /\ response.handler = "update_brand_voice" /\ response.status_code = 200
    /\ Len(brand_voices) = 1 /\ Len(brand_voice_versions) = 1
    /\ brand_voices[1].version = 2 /\ brand_voices[1].description = "V2"
    /\ brand_voices[1].name = "V1" /\ brand_voices[1].dos = "V1"
    /\ brand_voice_versions[1].status = "published"
    /\ brand_voice_versions[1].version_number = 1
    /\ brand_voice_versions[1].description = "V1"

====
